---- MODULE Spec2Model ----
(***************************************************************************)
(* Model of the honey-file (sentinel file) monitor of bigman-antivirus:    *)
(* the configuration registry (HoneyFileMonitor.configs), the GUI frame    *)
(* that edits it and polls the event channel (BigmanApp::update and        *)
(* BigmanApp::draw_honey_files_view), and the background watch thread      *)
(* (HoneyFileMonitor::monitor_files_unix) with its inotify queue, its      *)
(* script handler and its mpsc channel.                                    *)
(***************************************************************************)
EXTENDS Naturals, Sequences, FiniteSets

(***************************************************************************)
(* Bounds of the model.                                                    *)
(***************************************************************************)
\* raw inotify notifications the filesystem produces in one behaviour
MaxNotifs == 2
\* watch threads start_monitoring spawns in one behaviour of Spec
MaxEngines == 1
\* watch threads start_monitoring spawns in one behaviour of SpecEdit
MaxStarts == 2
\* raw inotify notifications in one behaviour of SpecClassify
MaxClassified == 1
\* threads SpecRestart spawns, and raw notifications it draws
MaxRestarts == 2
MaxRestartNotifs == 3
\* raw notifications SpecWatch draws
MaxWatched == 1
\* channels SpecNotUnix creates
MaxNotUnixStarts == 2
\* threads SpecCatalogue spawns
MaxCatalogueStarts == 2
\* worker threads SpecTasks spawns
MaxWorkers == 3
\* raw notifications SpecPoll draws
MaxPolled == 3
\* raw notifications SpecDiscard draws
MaxDiscarded == 2
\* raw notifications SpecEmit draws
MaxEmitted == 2
\* threads SpecEnds spawns, and raw notifications it draws
MaxEndStarts == 2
MaxEndNotifs == 2

\* Option: None is the empty sequence, Some(x) the sequence holding x
None == <<>>
Some(x) == <<x>>
unwrap(o) == o[1]

(***************************************************************************)
(* EventType (honey_files.rs 15-49).                                       *)
(***************************************************************************)
EventType == {"Read", "Write", "Execute", "Access", "Modify", "Create", "Delete"}

as_str_access(e) ==
    CASE e = "Read" -> "Access"
      [] e = "Write" -> "Write"
      [] e = "Execute" -> "Execute"
      [] e = "Access" -> "Access"
      [] e = "Modify" -> "Modify"
      [] e = "Create" -> "Create"
      [] e = "Delete" -> "Delete"

as_str(e) ==
    CASE e = "Read" -> "Read"
      [] e = "Write" -> "Write"
      [] e = "Execute" -> "Execute"
      [] e = "Access" -> "Access"
      [] e = "Modify" -> "Modify"
      [] e = "Create" -> "Create"
      [] e = "Delete" -> "Delete"

EventType_all == <<"Read", "Write", "Execute", "Access", "Modify", "Create", "Delete">>

(***************************************************************************)
(* Vec helpers.                                                            *)
(***************************************************************************)
Range(s) == {s[i] : i \in DOMAIN s}

\* Vec::contains
contains(v, x) == \E i \in DOMAIN v : v[i] = x

\* Vec::retain(|&e| e != x)
RECURSIVE retain_ne(_, _)
retain_ne(v, x) ==
    IF v = <<>> THEN <<>>
    ELSE IF Head(v) = x THEN retain_ne(Tail(v), x)
    ELSE <<Head(v)>> \o retain_ne(Tail(v), x)

NoDup(v) == \A i, j \in DOMAIN v : v[i] = v[j] => i = j

RECURSIVE Reverse(_)
Reverse(s) == IF s = <<>> THEN <<>> ELSE Reverse(Tail(s)) \o <<Head(s)>>

\* every ordering of a finite set
RECURSIVE Orderings(_)
Orderings(S) ==
    IF S = {} THEN {<<>>}
    ELSE UNION {{<<x>> \o s : s \in Orderings(S \ {x})} : x \in S}

(***************************************************************************)
(* Paths are sequences of components; Path::file_name is the last one.     *)
(***************************************************************************)
file_name(p) == IF p = <<>> THEN None ELSE Some(p[Len(p)])

\* Path::extension of a script path <<..., <<stem, ext>>>> is kept apart:
\* a script path is a pair <<stem, extension>>.
extension(sp) == sp[2]

\* PathBuf::from of the name a notification carries: one component
PathBuf_from(name) == <<unwrap(name)>>

\* Path::join
join(base, rel) == base \o rel

\* paths the Add File dialog is given (two of them share a file name)
AddPaths == {<<"/tmp", "t.cfg">>, <<"/srv", "t.cfg">>}
\* descriptions typed into the dialog ("" leaves the generated one)
Descriptions == {"", "trap"}
\* scripts the Set Script dialog returns
ScriptPaths == {<<"alert", "sh">>, <<"notes", "txt">>}
\* values of the HOME environment variable (None: unset)
HomeEnv == {None, Some("/root")}

(***************************************************************************)
(* HoneyFileConfig (honey_files.rs 53-129).  A description is a sequence   *)
(* of text pieces: format!("Monitor {}", path) is <<"Monitor ", path>>.    *)
(***************************************************************************)
HoneyFileConfig_new_write_only(file_path) ==
    [file_path |-> file_path,
     enabled |-> TRUE,
     monitored_events |-> <<"Write">>,
     script_handler |-> None,
     description |-> <<"Monitor ", file_path>>]

HoneyFileConfig_new(file_path) ==
    [file_path |-> file_path,
     enabled |-> TRUE,
     monitored_events |-> <<"Write", "Modify">>,
     script_handler |-> None,
     description |-> <<"Monitor ", file_path>>]

CommonFile_enabled(home_path, rel, events, description) ==
    [file_path |-> join(home_path, rel),
     enabled |-> TRUE,
     monitored_events |-> events,
     script_handler |-> None,
     description |-> <<description>>]

CommonFile(home_path, rel, events, description) ==
    [file_path |-> join(home_path, rel),
     enabled |-> FALSE,
     monitored_events |-> events,
     script_handler |-> None,
     description |-> <<description>>]

get_common_files(home_var) ==
    LET home == IF home_var = None THEN "/home/user" ELSE unwrap(home_var)
        home_path == <<home>>
    IN  <<CommonFile(home_path, <<".bashrc">>, <<"Write", "Modify">>,
                     "Bash configuration file"),
          CommonFile(home_path, <<".bash_profile">>, <<"Write", "Modify">>,
                     "Bash profile configuration"),
          CommonFile(home_path, <<".zshrc">>, <<"Write", "Modify">>,
                     "Zsh configuration file"),
          CommonFile(home_path, <<".gitconfig">>, <<"Write", "Modify", "Access">>,
                     "Global Git configuration"),
          CommonFile(home_path, <<".git-credentials">>, <<"Write", "Modify", "Access">>,
                     "Global Git configuration"),
          CommonFile(home_path, <<".ssh", "config">>, <<"Write", "Modify", "Access">>,
                     "SSH client configuration"),
          CommonFile(home_path, <<".ssh", "authorized_keys">>, <<"Write", "Modify", "Access">>,
                     "SSH authorized keys")>>

(***************************************************************************)
(* The registry: HashMap<PathBuf, HoneyFileConfig>, a set of entries keyed *)
(* by file_path (add_file inserts under config.file_path.clone()).         *)
(***************************************************************************)
\* a map that keeps the entry it had under the key beside the new one
HashMap_insert_keep(m, config) == m \cup {config}

\* HashMap::insert: the entry under the key, if any, is replaced
HashMap_insert(m, config) ==
    {c \in m : c.file_path # config.file_path} \cup {config}

\* HashMap::remove
HashMap_remove_by_name(m, path) ==
    {c \in m : file_name(c.file_path) # file_name(path)}

HashMap_remove(m, path) == {c \in m : c.file_path # path}

add_file(m, config) == HashMap_insert(m, config)

remove_file(m, path) == HashMap_remove(m, path)

\* a checkbox that pushes on every click
toggle_event_push(events, event_type) == Append(events, event_type)

\* the event checkbox of draw_honey_files_view (gui.rs 498-509): the box
\* shows contains(event_type); a click flips it and the list follows
toggle_event(events, event_type) ==
    LET is_monitored == ~contains(events, event_type)
    IN  IF is_monitored
        THEN IF ~contains(events, event_type)
             THEN Append(events, event_type)
             ELSE events
        ELSE retain_ne(events, event_type)

(***************************************************************************)
(* inotify masks are sets of flag names; `|` is union, contains is \in.    *)
(***************************************************************************)
\* a mask in which Execute asks for nothing
mask_of_without_execute(event_type) ==
    CASE event_type \in {"Read", "Access"} -> {"ACCESS"}
      [] event_type \in {"Write", "Modify"} -> {"MODIFY", "CLOSE_WRITE"}
      [] event_type = "Create" -> {"CREATE"}
      [] event_type = "Delete" -> {"DELETE", "DELETE_SELF"}
      [] event_type = "Execute" -> {}

\* the WatchMask one monitored EventType asks for (honey_files.rs 224-230)
mask_of(event_type) ==
    CASE event_type \in {"Read", "Access"} -> {"ACCESS"}
      [] event_type \in {"Write", "Modify"} -> {"MODIFY", "CLOSE_WRITE"}
      [] event_type = "Create" -> {"CREATE"}
      [] event_type = "Delete" -> {"DELETE", "DELETE_SELF"}
      [] event_type = "Execute" -> {"ACCESS"}

\* the mask registered for a config (honey_files.rs 222-231)
watch_mask(monitored_events) ==
    UNION {mask_of(monitored_events[i]) : i \in DOMAIN monitored_events}

\* a classification that tests the modify flags before the access flag
classify_modify_first(mask) ==
    IF "MODIFY" \in mask \/ "CLOSE_WRITE" \in mask THEN "Modify"
    ELSE IF "ACCESS" \in mask THEN "Access"
    ELSE IF "CREATE" \in mask THEN "Create"
    ELSE IF "DELETE" \in mask THEN "Delete"
    ELSE "Access"

\* a classification that names the modify flags Write
classify_write(mask) ==
    IF "ACCESS" \in mask THEN "Access"
    ELSE IF "MODIFY" \in mask \/ "CLOSE_WRITE" \in mask THEN "Write"
    ELSE IF "CREATE" \in mask THEN "Create"
    ELSE IF "DELETE" \in mask THEN "Delete"
    ELSE "Access"

\* a classification that takes DELETE_SELF for a delete
classify_delete_self(mask) ==
    IF "ACCESS" \in mask THEN "Access"
    ELSE IF "MODIFY" \in mask \/ "CLOSE_WRITE" \in mask THEN "Modify"
    ELSE IF "CREATE" \in mask THEN "Create"
    ELSE IF "DELETE" \in mask \/ "DELETE_SELF" \in mask THEN "Delete"
    ELSE "Access"

\* a classification that lets the later categories win
classify_last_match(mask) ==
    IF "DELETE" \in mask THEN "Delete"
    ELSE IF "CREATE" \in mask THEN "Create"
    ELSE IF "MODIFY" \in mask \/ "CLOSE_WRITE" \in mask THEN "Modify"
    ELSE "Access"

\* classification of a raw notification's mask (honey_files.rs 245-255)
classify(mask) ==
    IF "ACCESS" \in mask THEN "Access"
    ELSE IF "MODIFY" \in mask \/ "CLOSE_WRITE" \in mask THEN "Modify"
    ELSE IF "CREATE" \in mask THEN "Create"
    ELSE IF "DELETE" \in mask THEN "Delete"
    ELSE "Access"

\* FileEvent::new (honey_files.rs 141-153).  The wall-clock timestamp is not
\* modelled; raw is the ordinal of the raw notification the event comes from.
FileEvent_new(file_path, event_type, raw) ==
    [file_path |-> file_path,
     event_type |-> event_type,
     process_info |-> None,
     raw |-> raw]

\* a lookup that takes the last config of that file name
find_config_last(cfgs, file_event) ==
    LET ms == {i \in DOMAIN cfgs :
                 file_name(cfgs[i].file_path) = file_name(file_event.file_path)}
    IN  IF ms = {} THEN None
        ELSE Some(cfgs[CHOOSE i \in ms : \A j \in ms : j <= i])

\* configs.iter().find(|c| c.file_path.file_name() == event.file_path.file_name())
RECURSIVE find_config(_, _)
find_config(cfgs, file_event) ==
    IF cfgs = <<>> THEN None
    ELSE IF file_name(Head(cfgs).file_path) = file_name(file_event.file_path)
         THEN Some(Head(cfgs))
         ELSE find_config(Tail(cfgs), file_event)

\* the handler the loop calls for an event, None when it calls none
\* (honey_files.rs 260-264)
handler_for(cfgs, file_event) ==
    LET config == find_config(cfgs, file_event)
    IN  IF config = None THEN None ELSE unwrap(config).script_handler

\* a guard that does not look at the extension
handler_runs_any_extension(script_path, exists) == exists

\* the guard of execute_script_handler (honey_files.rs 277): TRUE when the
\* child process is run
handler_runs(script_path, exists) ==
    ~(~exists \/ ~(extension(script_path) = "sh"))

\* names of directory entries a notification can carry
EntryNames == {Some("t.cfg"), Some("x.log")}

\* size of the read buffer (honey_files.rs 238)
BufferLen == 1024

\* bytes one raw notification takes in the buffer: the 16-byte header and
\* the name padded to 16 bytes
EventBytes(ev) == IF ev.name = None THEN 16 ELSE 32

RECURSIVE FitCount(_, _)
FitCount(q, room) ==
    IF q = <<>> \/ EventBytes(Head(q)) > room THEN 0
    ELSE 1 + FitCount(Tail(q), room - EventBytes(Head(q)))

(***************************************************************************)
(* State.                                                                  *)
(***************************************************************************)
VARIABLES
    configs,              \* HoneyFileMonitor.configs
    home_env,             \* the HOME environment variable
    inotify_handle,       \* HoneyFileMonitor.inotify_handle
    gui_pc,               \* position in a GUI frame: "update" or "draw"
    honey_file_receiver,  \* BigmanApp.honey_file_receiver: None or a channel
    honey_file_events,    \* BigmanApp.honey_file_events, newest first
    pc,                   \* per watch thread: init, read, proc, child, send, done
    snap,                 \* per watch thread: the configs it was spawned with
    watches,              \* per watch thread: the inotify watches it holds
    kq,                   \* per watch thread: its inotify queue in the kernel
    batch,                \* per watch thread: events of the last read not yet visited
    cur,                  \* per watch thread: the FileEvent being handled
    chan,                 \* per channel: FileEvents sent and not yet received
    rx,                   \* per channel: the Receiver has not been dropped
    rawlog,               \* history: per raw notification, what became of it
    sent,                 \* history: per channel, raw ordinals of the events sent
    regs,                 \* history: per watch thread, what became of each watch it asked for
    lastToggle,           \* history: the last event-checkbox click
    lastAdd,              \* history: the last add_file of the dialog
    lastLoad,             \* history: the registry the last Load Common Files found
    lastControl,          \* history: what the last Start / Stop click did
    scan_task,            \* BigmanApp.scan_task
    update_task,          \* BigmanApp.update_task
    workers               \* per thread of run_command_in_thread: position, result, channel

vars == <<configs, home_env, inotify_handle, gui_pc, honey_file_receiver,
          honey_file_events, pc, snap, watches, kq, batch, cur, chan, rx,
          rawlog, sent, regs, lastToggle, lastAdd, lastLoad, lastControl,
          scan_task, update_task, workers>>

history_vars == <<lastToggle, lastAdd, lastLoad, lastControl>>
engine_vars == <<pc, snap, watches, kq, batch, cur, rawlog, sent, regs>>
task_vars == <<scan_task, update_task, workers>>

(***************************************************************************)
(* Task (gui.rs 13-20) and the threads of run_command_in_thread            *)
(* (gui.rs 597-627).  A task is a record: its state, the worker whose      *)
(* Receiver it holds when InProgress, its result when Complete.            *)
(***************************************************************************)
Task_Idle == [state |-> "Idle", rx |-> None, result |-> None]
Task_InProgress(receiver) == [state |-> "InProgress", rx |-> Some(receiver), result |-> None]
Task_Complete(result) == [state |-> "Complete", rx |-> None, result |-> Some(result)]

\* what command.output() comes to in the worker (gui.rs 601-620)
CommandResults == {"Command finished", "Failed to execute"}

\* gui.rs 277 and 305
is_task_running ==
    \/ scan_task.state \notin {"Idle", "Complete"}
    \/ update_task.state \notin {"Idle", "Complete"}

\* rx.try_recv() on the channel of worker w
try_recv(w) ==
    IF workers[w].chan # None THEN "Ok"
    ELSE IF workers[w].pc = "done" THEN "Disconnected"
    ELSE "Empty"

\* one half of check_for_task_completion (gui.rs 380-388, 391-399)
task_after_check(task) ==
    IF task.state = "InProgress"
    THEN CASE try_recv(unwrap(task.rx)) = "Ok" ->
                  Task_Complete(unwrap(workers[unwrap(task.rx)].chan))
           [] try_recv(unwrap(task.rx)) = "Empty" -> task
           [] try_recv(unwrap(task.rx)) = "Disconnected" ->
                  Task_Complete("Task thread terminated unexpectedly.")
    ELSE task

\* the Receivers a set of tasks holds
receivers_of(tasks) == {unwrap(t.rx) : t \in {u \in tasks : u.rx # None}}

\* the workers once the Receivers in dropped are gone, with what they held
drop_receivers(dropped) ==
    [w \in DOMAIN workers |->
        IF w \in dropped THEN [workers[w] EXCEPT !.rx = FALSE, !.chan = None]
        ELSE workers[w]]

\* check_for_task_completion (gui.rs 377-401)
check_for_task_completion ==
    /\ scan_task' = task_after_check(scan_task)
    /\ update_task' = task_after_check(update_task)
    /\ workers' = drop_receivers(receivers_of({scan_task, update_task})
                                    \ receivers_of({task_after_check(scan_task),
                                                     task_after_check(update_task)}))

Engines == DOMAIN pc

\* the registry entry of a path
config_at(path) == CHOOSE c \in configs : c.file_path = path

\* a thread that reads the registry itself instead of a clone
engine_configs_live(e) == CHOOSE s \in Orderings({c \in configs : c.enabled}) : TRUE

\* the configs a watch thread works with: its own clone (honey_files.rs 191-197)
engine_configs(e) == snap[e]

(***************************************************************************)
(* Initial state: BigmanApp::default / HoneyFileMonitor::new.              *)
(***************************************************************************)
InitWith(cfgs, home) ==
    /\ configs = cfgs
    /\ home_env = home
    /\ inotify_handle = None
    /\ gui_pc = "update"
    /\ honey_file_receiver = None
    /\ honey_file_events = <<>>
    /\ pc = <<>>
    /\ snap = <<>>
    /\ watches = <<>>
    /\ kq = <<>>
    /\ batch = <<>>
    /\ cur = <<>>
    /\ chan = <<>>
    /\ rx = <<>>
    /\ rawlog = <<>>
    /\ sent = <<>>
    /\ regs = <<>>
    /\ lastToggle = None
    /\ lastAdd = None
    /\ lastLoad = None
    /\ lastControl = "none"
    /\ scan_task = Task_Idle
    /\ update_task = Task_Complete("Database status is unknown.")
    /\ workers = <<>>

Init == InitWith({}, None)

(***************************************************************************)
(* The GUI frame (BigmanApp::update): first the channel is drained, then   *)
(* the view is drawn and at most one control is clicked.                   *)
(***************************************************************************)
\* honey_file_events after the try_recv loop (gui.rs 99-104): each event
\* received is inserted at index 0
\* a poll that puts what it received, oldest first, before the list
drained_events_block(events, queue) == queue \o events

drained_events(events, queue) == Reverse(queue) \o events

\* gui.rs 98-107
Update ==
    /\ gui_pc = "update"
    /\ gui_pc' = "draw"
    /\ IF honey_file_receiver = None
       THEN UNCHANGED <<honey_file_events, chan>>
       ELSE /\ honey_file_events' =
                 drained_events(honey_file_events, chan[unwrap(honey_file_receiver)])
            /\ chan' = [chan EXCEPT ![unwrap(honey_file_receiver)] = <<>>]
    /\ check_for_task_completion
    /\ UNCHANGED <<configs, home_env, inotify_handle, honey_file_receiver, rx>>
    /\ UNCHANGED history_vars
    /\ UNCHANGED engine_vars

\* a frame in which no control is clicked
NoClick ==
    /\ gui_pc = "draw"
    /\ gui_pc' = "update"
    /\ UNCHANGED <<configs, home_env, inotify_handle, honey_file_receiver,
                   honey_file_events, chan, rx>>
    /\ UNCHANGED history_vars
    /\ UNCHANGED engine_vars
    /\ UNCHANGED task_vars

\* what a click on a registry control leaves alone
RegistryClickFrame ==
    /\ gui_pc = "draw"
    /\ gui_pc' = "update"
    /\ UNCHANGED <<home_env, inotify_handle, honey_file_receiver,
                   honey_file_events, chan, rx, lastControl>>
    /\ UNCHANGED engine_vars
    /\ UNCHANGED task_vars

\* the Add button of the dialog (gui.rs 459-467)
ClickAdd(new_file_path, new_file_description) ==
    /\ RegistryClickFrame
    /\ new_file_path # <<>>
    /\ LET config == HoneyFileConfig_new(new_file_path)
           named == IF new_file_description # ""
                    THEN [config EXCEPT !.description = <<new_file_description>>]
                    ELSE config
       IN  /\ configs' = add_file(configs, named)
           /\ lastAdd' = Some([config |-> named,
                                old |-> LET olds == {c \in configs :
                                                       c.file_path = new_file_path}
                                        IN  IF olds = {} THEN None
                                            ELSE Some(CHOOSE c \in olds : TRUE)])
    /\ lastToggle' = None
    /\ lastLoad' = None

\* Load Common Files (gui.rs 423-428)
\* a load that adds only the catalogue entries whose path has no entry yet
add_all_missing(m, cfgs) ==
    m \cup {cfgs[i] : i \in {j \in DOMAIN cfgs :
                                 \A c \in m : c.file_path # cfgs[j].file_path}}

RECURSIVE add_all(_, _)
add_all(m, cfgs) ==
    IF cfgs = <<>> THEN m ELSE add_all(add_file(m, Head(cfgs)), Tail(cfgs))

ClickLoadCommon ==
    /\ RegistryClickFrame
    /\ configs' = add_all(configs, get_common_files(home_env))
    /\ lastToggle' = None
    /\ lastAdd' = None
    /\ lastLoad' = Some(configs)

\* the enabled checkbox (gui.rs 487)
ClickEnabled(path) ==
    /\ RegistryClickFrame
    /\ \E c \in configs :
         /\ c.file_path = path
         /\ configs' = (configs \ {c}) \cup {[c EXCEPT !.enabled = ~c.enabled]}
    /\ lastToggle' = None
    /\ lastAdd' = None
    /\ lastLoad' = None

\* the remove button (gui.rs 489-491, 535-537)
ClickRemove(path) ==
    /\ RegistryClickFrame
    /\ \E c \in configs : c.file_path = path
    /\ configs' = remove_file(configs, path)
    /\ lastToggle' = None
    /\ lastAdd' = None
    /\ lastLoad' = None

\* an event checkbox (gui.rs 498-509)
ClickEvent(path, event_type) ==
    /\ RegistryClickFrame
    /\ \E c \in configs :
         /\ c.file_path = path
         /\ LET after == toggle_event(c.monitored_events, event_type)
                on == ~contains(c.monitored_events, event_type)
                undo == /\ lastToggle # None
                        /\ unwrap(lastToggle).path = path
                        /\ unwrap(lastToggle).event_type = event_type
                        /\ unwrap(lastToggle).on
                        /\ ~on
            IN  /\ configs' = (configs \ {c})
                                \cup {[c EXCEPT !.monitored_events = after]}
                /\ lastToggle' = Some([path |-> path,
                                       event_type |-> event_type,
                                       on |-> on,
                                       before |-> c.monitored_events,
                                       orig |-> IF undo
                                                THEN Some(unwrap(lastToggle).before)
                                                ELSE None])
    /\ lastAdd' = None
    /\ lastLoad' = None

\* Set Script, with the file the dialog returned (gui.rs 520-526)
ClickSetScript(path, script_path) ==
    /\ RegistryClickFrame
    /\ \E c \in configs :
         /\ c.file_path = path
         /\ c.script_handler = None
         /\ configs' = (configs \ {c})
                         \cup {[c EXCEPT !.script_handler = Some(script_path)]}
    /\ lastToggle' = None
    /\ lastAdd' = None
    /\ lastLoad' = None

\* Remove (script) (gui.rs 514-518)
ClickRemoveScript(path) ==
    /\ RegistryClickFrame
    /\ \E c \in configs :
         /\ c.file_path = path
         /\ c.script_handler # None
         /\ configs' = (configs \ {c}) \cup {[c EXCEPT !.script_handler = None]}
    /\ lastToggle' = None
    /\ lastAdd' = None
    /\ lastLoad' = None

\* Clear Events (gui.rs 430-432)
ClickClearEvents ==
    /\ gui_pc = "draw"
    /\ gui_pc' = "update"
    /\ honey_file_events' = <<>>
    /\ UNCHANGED <<configs, home_env, inotify_handle, honey_file_receiver,
                   chan, rx>>
    /\ UNCHANGED history_vars
    /\ UNCHANGED engine_vars
    /\ UNCHANGED task_vars

(***************************************************************************)
(* start_monitoring and the Start / Stop controls.                         *)
(***************************************************************************)
\* a start that hands over every entry, enabled or not
snapshots_all(m) == Orderings(m)

\* the configs start_monitoring hands to the thread (honey_files.rs 191-194):
\* the enabled entries, in the HashMap's iteration order
snapshots(m) == Orderings({c \in m : c.enabled})

\* a start that ends the threads spawned before it
start_monitoring_exclusive(snapshot) ==
    /\ pc' = Append([e \in DOMAIN pc |-> "done"], "init")
    /\ snap' = Append(snap, snapshot)
    /\ watches' = Append(watches, {})
    /\ kq' = Append(kq, <<>>)
    /\ batch' = Append(batch, <<>>)
    /\ cur' = Append(cur, None)
    /\ chan' = Append(chan, <<>>)
    /\ rx' = Append(rx, TRUE)
    /\ sent' = Append(sent, <<>>)
    /\ regs' = Append(regs, None)
    /\ inotify_handle' = Some(Len(pc) + 1)
    /\ UNCHANGED rawlog

\* honey_files.rs 189-204: a fresh channel, a thread spawned on the clone
start_monitoring(snapshot) ==
    /\ pc' = Append(pc, "init")
    /\ snap' = Append(snap, snapshot)
    /\ watches' = Append(watches, {})
    /\ kq' = Append(kq, <<>>)
    /\ batch' = Append(batch, <<>>)
    /\ cur' = Append(cur, None)
    /\ chan' = Append(chan, <<>>)
    /\ rx' = Append(rx, TRUE)
    /\ sent' = Append(sent, <<>>)
    /\ regs' = Append(regs, None)
    /\ inotify_handle' = Some(Len(pc) + 1)
    /\ UNCHANGED rawlog

\* a Start control that does not look at the receiver
start_always(receiver) == TRUE

\* a Start control that is also live once the thread has returned
start_if_ended(receiver) ==
    receiver = None \/ pc[unwrap(receiver)] = "done"

\* the condition beside clicked() of the Start control (gui.rs 409)
start_enabled(receiver) == receiver = None

\* Start Monitoring (gui.rs 409-411); limit bounds the threads spawned
ClickStart(limit) ==
    /\ gui_pc = "draw"
    /\ gui_pc' = "update"
    /\ IF start_enabled(honey_file_receiver)
       THEN /\ Len(pc) < limit
            /\ \E snapshot \in snapshots(configs) : start_monitoring(snapshot)
            /\ honey_file_receiver' = Some(Len(pc) + 1)
            /\ lastControl' = "spawned"
       ELSE /\ UNCHANGED <<honey_file_receiver, inotify_handle, chan, rx>>
            /\ UNCHANGED engine_vars
            /\ lastControl' = IF pc[unwrap(honey_file_receiver)] = "done"
                              THEN "refused_after_end"
                              ELSE "refused"
    /\ UNCHANGED <<configs, home_env, honey_file_events, lastToggle, lastAdd, lastLoad>>
    /\ UNCHANGED task_vars

\* a Stop control that keeps the receiver
receiver_kept(receiver) == receiver

\* what the Stop control assigns to honey_file_receiver (gui.rs 414)
receiver_after_stop(receiver) == None

\* Stop Monitoring (gui.rs 413-415): the Receiver is dropped
ClickStop ==
    /\ gui_pc = "draw"
    /\ gui_pc' = "update"
    /\ honey_file_receiver' = receiver_after_stop(honey_file_receiver)
    /\ IF honey_file_receiver = None \/ honey_file_receiver' = honey_file_receiver
       THEN UNCHANGED <<chan, rx>>
       ELSE /\ rx' = [rx EXCEPT ![unwrap(honey_file_receiver)] = FALSE]
            /\ chan' = [chan EXCEPT ![unwrap(honey_file_receiver)] = <<>>]
    /\ lastControl' = "stopped"
    /\ UNCHANGED <<configs, home_env, inotify_handle, honey_file_events,
                   lastToggle, lastAdd, lastLoad>>
    /\ UNCHANGED engine_vars
    /\ UNCHANGED task_vars

(***************************************************************************)
(* The watch thread: HoneyFileMonitor::monitor_files_unix.                 *)
(***************************************************************************)
gui_vars == <<configs, home_env, inotify_handle, gui_pc, honey_file_receiver,
              honey_file_events, lastToggle, lastAdd, lastLoad, lastControl,
              scan_task, update_task, workers>>

\* the watch one config asks for; kind is what the path is on disk
Watch(config, kind) ==
    [path |-> config.file_path,
     mask |-> watch_mask(config.monitored_events),
     kind |-> kind]

\* a registration loop that gives up at the first entry it cannot watch
registered_until_skipped(cfgs, reg) ==
    {Watch(cfgs[i], reg[i]) :
        i \in {j \in DOMAIN cfgs : \A k \in 1..j : reg[k] # "skipped"}}

\* the watches registered (honey_files.rs 217-236): reg[i] says what became
\* of engine_configs[i]: "skipped" (the path does not exist, line 218, or the
\* add failed, line 233), or the watch was added on a "file" or a "dir"
registered(cfgs, reg) ==
    {Watch(cfgs[i], reg[i]) : i \in {j \in DOMAIN cfgs : reg[j] # "skipped"}}

\* where the thread is after the for loop over one read has been left
after_batch == "read"

\* where the thread is after `break` on a failed send (honey_files.rs 266-268):
\* the break leaves the for loop, and the enclosing loop reads again
after_send_error == after_batch

\* where the thread is once an event has been dealt with
next_pc(rest) == IF rest = <<>> THEN after_batch ELSE "proc"

\* Inotify::init fails (honey_files.rs 215): the thread returns the error
EngineInitFails(e) ==
    /\ pc[e] = "init"
    /\ pc' = [pc EXCEPT ![e] = "done"]
    /\ UNCHANGED <<regs, snap, watches, kq, batch, cur, chan, rx, rawlog, sent>>
    /\ UNCHANGED gui_vars

\* inotify.watches().add returns Err for a mask without any event
\* (honey_files.rs 233): inotify_add_watch rejects it
add_refused(config) == watch_mask(config.monitored_events) = {}

\* honey_files.rs 215-238
EngineInit(e) ==
    /\ pc[e] = "init"
    /\ \E reg \in [DOMAIN engine_configs(e) -> {"skipped", "file", "dir"}] :
         /\ \A i \in DOMAIN reg : add_refused(engine_configs(e)[i]) => reg[i] = "skipped"
         /\ watches' = [watches EXCEPT ![e] = registered(engine_configs(e), reg)]
         /\ regs' = [regs EXCEPT ![e] = Some([i \in DOMAIN reg |->
                        [kind |-> reg[i],
                         mask |-> watch_mask(engine_configs(e)[i].monitored_events)]])]
    /\ pc' = [pc EXCEPT ![e] = "read"]
    /\ UNCHANGED <<snap, kq, batch, cur, chan, rx, rawlog, sent>>
    /\ UNCHANGED gui_vars

\* the filesystem: an event on a watched path enters the inotify queue.  On a
\* watched file the notification carries no name; on a watched directory it
\* names the entry.
FsActivity(e, w, mask, name) ==
    /\ pc[e] \notin {"init", "done"}
    /\ w \in watches[e]
    /\ mask # {}
    /\ mask \subseteq w.mask
    /\ IF w.kind = "file" THEN name = None ELSE name \in EntryNames
    /\ kq' = [kq EXCEPT ![e] =
                Append(@, [mask |-> mask, name |-> name, raw |-> Len(rawlog) + 1])]
    /\ rawlog' = Append(rawlog, [eng |-> e, mask |-> mask, name |-> name,
                                 path |-> w.path,
                                 fate |-> "queued", handler |-> "none",
                                 script |-> None, exists |-> "unknown",
                                 rx_live |-> "unknown",
                                 read_live |-> "unknown"])
    /\ UNCHANGED <<pc, regs, snap, watches, batch, cur, chan, rx, sent>>
    /\ UNCHANGED gui_vars

\* read_events_blocking returns (honey_files.rs 240): as many queued events
\* as fit the buffer
ReadEvents(e) ==
    /\ pc[e] = "read"
    /\ kq[e] # <<>>
    /\ LET n == FitCount(kq[e], BufferLen)
           got == SubSeq(kq[e], 1, n)
       IN  /\ batch' = [batch EXCEPT ![e] = got]
           /\ kq' = [kq EXCEPT ![e] = SubSeq(@, n + 1, Len(@))]
           /\ rawlog' = [r \in DOMAIN rawlog |->
                           IF \E i \in DOMAIN got : got[i].raw = r
                           THEN [rawlog[r] EXCEPT !.fate = "read",
                                                  !.read_live =
                                                      IF rx[e] THEN "live"
                                                      ELSE "dropped"]
                           ELSE rawlog[r]]
    /\ pc' = [pc EXCEPT ![e] = "proc"]
    /\ UNCHANGED <<regs, snap, watches, cur, chan, rx, sent>>
    /\ UNCHANGED gui_vars

\* read_events_blocking fails (honey_files.rs 240): the thread returns the error
ReadFails(e) ==
    /\ pc[e] = "read"
    /\ pc' = [pc EXCEPT ![e] = "done"]
    /\ UNCHANGED <<regs, snap, watches, kq, batch, cur, chan, rx, rawlog, sent>>
    /\ UNCHANGED gui_vars

\* a loop body that drops every notification
discards_all(ev) == TRUE

\* the loop drops a notification without a name (honey_files.rs 243)
discards(ev) == ev.name = None

\* where the thread is while the handler's child process runs: cmd.output()
\* waits for it (honey_files.rs 287)
\* a handler started without waiting for it
handler_pc_async == "send"

handler_pc == "child"

\* one turn of the for loop up to the send (honey_files.rs 242-264): the
\* notification is dropped, or classified and, with a handler configured,
\* execute_script_handler is entered; exists is what Path::exists answers
Process(e, exists) ==
    /\ pc[e] = "proc"
    /\ LET ev == Head(batch[e])
           rest == Tail(batch[e])
           file_event == FileEvent_new(PathBuf_from(ev.name), classify(ev.mask), ev.raw)
           script_path == handler_for(engine_configs(e), file_event)
       IN  /\ batch' = [batch EXCEPT ![e] = rest]
           /\ IF discards(ev)
              THEN /\ pc' = [pc EXCEPT ![e] = next_pc(rest)]
                   /\ cur' = cur
                   /\ rawlog' = [rawlog EXCEPT ![ev.raw].fate = "discarded",
                                               ![ev.raw].rx_live =
                                                   IF rx[e] THEN "live" ELSE "dropped"]
              ELSE /\ cur' = [cur EXCEPT ![e] = Some(file_event)]
                   /\ IF script_path = None
                      THEN /\ pc' = [pc EXCEPT ![e] = "send"]
                           /\ rawlog' = rawlog
                      ELSE IF handler_runs(unwrap(script_path), exists)
                      THEN /\ pc' = [pc EXCEPT ![e] = handler_pc]
                           /\ rawlog' = [rawlog EXCEPT ![ev.raw].handler = "running",
                                                       ![ev.raw].script = script_path,
                                                       ![ev.raw].exists = "yes"]
                      ELSE /\ pc' = [pc EXCEPT ![e] = "send"]
                           /\ rawlog' = [rawlog EXCEPT ![ev.raw].handler = "skipped",
                                                       ![ev.raw].script = script_path,
                                                       ![ev.raw].exists =
                                                           IF exists THEN "yes" ELSE "no"]
    /\ UNCHANGED <<regs, snap, watches, kq, chan, rx, sent>>
    /\ UNCHANGED gui_vars

\* a handler whose failure is returned as the thread's error
after_handler_fatal(outcome) == IF outcome = "success" THEN "send" ELSE "done"

\* where the thread is when execute_script_handler returns, whatever
\* cmd.output() gave (honey_files.rs 287-295, 266)
after_handler(outcome) == "send"

\* cmd.output() returns (honey_files.rs 287): the child ran and exited with
\* success or not, or could not be launched
HandlerDone(e, outcome) ==
    /\ pc[e] = "child"
    /\ pc' = [pc EXCEPT ![e] = after_handler(outcome)]
    /\ rawlog' = [rawlog EXCEPT ![unwrap(cur[e]).raw].handler = outcome]
    /\ UNCHANGED <<regs, snap, watches, kq, batch, cur, chan, rx, sent>>
    /\ UNCHANGED gui_vars

HandlerOutcomes == {"success", "nonzero", "launch_failed"}

\* a channel that hands out the newest value first
enqueue_front(queue, file_event) == <<file_event>> \o queue

\* mpsc::Sender::send on a live channel: the value joins the queue's end
enqueue(queue, file_event) == Append(queue, file_event)

\* raw ordinals of the events a step added to a queue
added(before, after) ==
    [i \in 1..(Len(after) - Len(before)) |-> after[Len(before) + i].raw]

\* sender.send(file_event) (honey_files.rs 266-268)
Send(e) ==
    /\ pc[e] = "send"
    /\ cur' = [cur EXCEPT ![e] = None]
    /\ IF rx[e]
       THEN /\ chan' = [chan EXCEPT ![e] = enqueue(@, unwrap(cur[e]))]
            /\ sent' = [sent EXCEPT ![e] = @ \o added(chan[e], chan'[e])]
            /\ pc' = [pc EXCEPT ![e] = next_pc(batch[e])]
            /\ batch' = batch
            /\ rawlog' = [rawlog EXCEPT ![unwrap(cur[e]).raw].fate = "enqueued",
                                        ![unwrap(cur[e]).raw].rx_live = "live"]
       ELSE /\ UNCHANGED <<chan, sent>>
            /\ pc' = [pc EXCEPT ![e] = after_send_error]
            /\ batch' = [batch EXCEPT ![e] = <<>>]
            /\ rawlog' = [r \in DOMAIN rawlog |->
                            IF r = unwrap(cur[e]).raw
                            THEN [rawlog[r] EXCEPT !.fate = "send_failed",
                                                   !.rx_live = "dropped"]
                            ELSE IF \E i \in DOMAIN batch[e] : batch[e][i].raw = r
                            THEN [rawlog[r] EXCEPT !.fate = "left"]
                            ELSE rawlog[r]]
    /\ UNCHANGED <<regs, snap, watches, kq, rx>>
    /\ UNCHANGED gui_vars

Engine ==
    \E e \in Engines :
        \/ EngineInitFails(e)
        \/ EngineInit(e)
        \/ ReadEvents(e)
        \/ ReadFails(e)
        \/ \E exists \in BOOLEAN : Process(e, exists)
        \/ \E outcome \in HandlerOutcomes : HandlerDone(e, outcome)
        \/ Send(e)

\* the masks this specification draws raw notifications from: every flag of
\* the watch at once (SpecClassify draws every mask)
SpecMasks(w) == {w.mask}
\* the entry names this specification draws raw notifications from
SpecNames == {Some("t.cfg")}

Fs ==
    /\ Len(rawlog) < MaxNotifs
    /\ \E e \in Engines : \E w \in watches[e] :
         \E mask \in SpecMasks(w) : \E name \in SpecNames \cup {None} :
             FsActivity(e, w, mask, name)

(***************************************************************************)
(* The monitor as the GUI drives it.                                       *)
(***************************************************************************)
\* the registry edits this specification draws its clicks from
SpecPaths == {<<"/tmp", "t.cfg">>}
SpecScripts == {<<"alert", "sh">>}

Gui ==
    \/ Update
    \/ NoClick
    \/ ClickStart(MaxEngines)
    \/ ClickStop
    \/ ClickClearEvents
    \/ \E p \in SpecPaths : ClickAdd(p, "")
    \/ \E p \in SpecPaths : \E s \in SpecScripts : ClickSetScript(p, s)

Next == Gui \/ Engine \/ Fs

Spec == Init /\ [][Next]_vars

(***************************************************************************)
(* The registry alone: every edit of the view, the catalogue, no thread.   *)
(***************************************************************************)
\* paths whose entries this specification edits: the dialog's paths and one
\* path of the catalogue
RegistryPaths == {<<"/tmp", "t.cfg">>, <<"/home/user", ".gitconfig">>}
\* event checkboxes this specification clicks
RegistryEvents == {"Access"}

InitRegistry == \E home \in HomeEnv : InitWith({}, home)

NextRegistry ==
    \/ Update
    \/ NoClick
    \/ ClickLoadCommon
    \/ \E p \in RegistryPaths : \E d \in Descriptions : ClickAdd(p, d)
    \/ \E p \in RegistryPaths : ClickEnabled(p)
    \/ \E p \in RegistryPaths : ClickRemove(p)
    \/ \E p \in RegistryPaths : \E t \in RegistryEvents : ClickEvent(p, t)
    \/ \E p \in RegistryPaths : \E s \in ScriptPaths : ClickSetScript(p, s)
    \/ \E p \in RegistryPaths : ClickRemoveScript(p)

SpecRegistry == InitRegistry /\ [][NextRegistry]_vars

(***************************************************************************)
(* One config and its seven event checkboxes.                              *)
(***************************************************************************)
\* the configs the checkboxes start from: a new one, and the catalogue's
ToggleStart ==
    {HoneyFileConfig_new(<<"/tmp", "t.cfg">>), get_common_files(None)[4]}

InitToggle == \E c \in ToggleStart : InitWith({c}, None)

NextToggle ==
    \/ Update
    \/ NoClick
    \/ \E c \in configs : \E t \in EventType : ClickEvent(c.file_path, t)

SpecToggle == InitToggle /\ [][NextToggle]_vars

(***************************************************************************)
(* Registry edits around running watch threads, without notifications.     *)
(***************************************************************************)
EditEvents == {"Access"}

NextEdit ==
    \/ Update
    \/ NoClick
    \/ ClickStart(MaxStarts)
    \/ ClickStop
    \/ \E p \in SpecPaths : ClickAdd(p, "")
    \/ \E p \in SpecPaths : ClickEnabled(p)
    \/ \E p \in SpecPaths : ClickRemove(p)
    \/ \E p \in SpecPaths : \E t \in EditEvents : ClickEvent(p, t)
    \/ \E p \in SpecPaths : \E s \in SpecScripts : ClickSetScript(p, s)
    \/ \E p \in SpecPaths : ClickRemoveScript(p)
    \/ \E e \in Engines : EngineInit(e)

SpecEdit == Init /\ [][NextEdit]_vars

(***************************************************************************)
(* One raw notification of any mask through a thread that watches every    *)
(* category.                                                               *)
(***************************************************************************)
EveryEventConfig ==
    [HoneyFileConfig_new(<<"/tmp", "t.cfg">>)
        EXCEPT !.monitored_events = <<"Write", "Modify", "Read", "Execute",
                                      "Access", "Create", "Delete">>]

InitClassify == InitWith({EveryEventConfig}, None)

FsClassify ==
    /\ Len(rawlog) < MaxClassified
    /\ \E e \in Engines : \E w \in watches[e] :
         \E mask \in SUBSET w.mask : \E name \in EntryNames \cup {None} :
             FsActivity(e, w, mask, name)

NextClassify ==
    \/ Update
    \/ NoClick
    \/ ClickStart(1)
    \/ ClickStop
    \/ \E e \in Engines : EngineInit(e)
    \/ FsClassify
    \/ \E e \in Engines : ReadEvents(e)
    \/ \E e \in Engines : \E exists \in BOOLEAN : Process(e, exists)
    \/ \E e \in Engines : Send(e)

SpecClassify == InitClassify /\ [][NextClassify]_vars

(***************************************************************************)
(* Stop and start again: threads of earlier starts beside the newest one,  *)
(* with notifications for all of them.                                     *)
(***************************************************************************)
InitRestart == InitWith({HoneyFileConfig_new(<<"/tmp", "t.cfg">>)}, None)

FsRestart ==
    /\ Len(rawlog) < MaxRestartNotifs
    /\ \E e \in Engines : \E w \in watches[e] :
         \E mask \in SpecMasks(w) : \E name \in SpecNames :
             FsActivity(e, w, mask, name)

NextRestart ==
    \/ Update
    \/ NoClick
    \/ ClickStart(MaxRestarts)
    \/ ClickStop
    \/ \E e \in Engines : EngineInit(e)
    \/ FsRestart
    \/ \E e \in Engines : ReadEvents(e)
    \/ \E e \in Engines : \E exists \in BOOLEAN : Process(e, exists)
    \/ \E e \in Engines : Send(e)

SpecRestart == InitRestart /\ [][NextRestart]_vars

(***************************************************************************)
(* One thread over two entries of the same file name, each with or without *)
(* a handler, a .sh one or not.                                            *)
(***************************************************************************)
WatchRegistries ==
    {{[HoneyFileConfig_new(<<"/tmp", "t.cfg">>) EXCEPT !.script_handler = Some(sa)],
      [HoneyFileConfig_new(<<"/srv", "t.cfg">>) EXCEPT !.script_handler = sb]} :
        sa \in ScriptPaths, sb \in {None, Some(<<"page", "sh">>)}}

InitWatch == \E r \in WatchRegistries : InitWith(r, None)

FsWatch ==
    /\ Len(rawlog) < MaxWatched
    /\ \E e \in Engines : \E w \in watches[e] :
         \E mask \in SpecMasks(w) : \E name \in EntryNames \cup {None} :
             FsActivity(e, w, mask, name)

NextWatch ==
    \/ Update
    \/ NoClick
    \/ ClickStart(1)
    \/ ClickStop
    \/ Engine
    \/ FsWatch

SpecWatch == InitWatch /\ [][NextWatch]_vars

(***************************************************************************)
(* One entry with any set of monitored events, and the watch a thread asks *)
(* for it.                                                                 *)
(***************************************************************************)
\* monitored_events lists: every set of EventTypes in the order of
\* EventType::all() and in the reverse of it
MaskEventLists ==
    UNION {{SelectSeq(EventType_all, LAMBDA t : t \in S),
            Reverse(SelectSeq(EventType_all, LAMBDA t : t \in S))} :
                S \in SUBSET EventType}

InitMask ==
    \E events \in MaskEventLists :
        InitWith({[HoneyFileConfig_new(<<"/tmp", "t.cfg">>)
                      EXCEPT !.monitored_events = events]}, None)

NextMask ==
    \/ Update
    \/ NoClick
    \/ ClickStart(1)
    \/ ClickStop
    \/ \E e \in Engines : EngineInit(e)

SpecMask == InitMask /\ [][NextMask]_vars

(***************************************************************************)
(* The build for a platform that is not unix: start_monitoring is the      *)
(* variant of honey_files.rs 206-211, and monitor_files_unix and the       *)
(* inotify_handle field are compiled out.                                  *)
(***************************************************************************)
\* a start that spawns a watch thread on this platform too
start_monitoring_spawning ==
    \E snapshot \in snapshots(configs) : start_monitoring(snapshot)

\* honey_files.rs 206-211: a channel is created, its Sender is dropped at
\* once, the Receiver is returned; no thread, no snapshot
start_monitoring_not_unix ==
    /\ chan' = Append(chan, <<>>)
    /\ rx' = Append(rx, TRUE)
    /\ sent' = Append(sent, <<>>)
    /\ UNCHANGED <<pc, snap, watches, kq, batch, cur, regs, rawlog, inotify_handle>>

\* Start Monitoring (gui.rs 409-411) in that build
ClickStart_not_unix(limit) ==
    /\ gui_pc = "draw"
    /\ gui_pc' = "update"
    /\ IF start_enabled(honey_file_receiver)
       THEN /\ Len(chan) < limit
            /\ start_monitoring_not_unix
            /\ honey_file_receiver' = Some(Len(chan) + 1)
            /\ lastControl' = "started"
       ELSE /\ UNCHANGED <<honey_file_receiver, inotify_handle, chan, rx>>
            /\ UNCHANGED engine_vars
            /\ lastControl' = "refused"
    /\ UNCHANGED <<configs, home_env, honey_file_events, lastToggle, lastAdd, lastLoad>>
    /\ UNCHANGED task_vars

\* filesystem activity in that build: there is no inotify instance, so
\* nothing is queued for anyone
FsActivity_not_unix == UNCHANGED vars

NextNotUnix ==
    \/ Update
    \/ NoClick
    \/ ClickStart_not_unix(MaxNotUnixStarts)
    \/ ClickStop
    \/ ClickClearEvents
    \/ \E p \in SpecPaths : ClickAdd(p, "")
    \/ \E p \in SpecPaths : ClickEnabled(p)
    \/ \E p \in SpecPaths : ClickRemove(p)
    \/ \E p \in SpecPaths : \E t \in EditEvents : ClickEvent(p, t)
    \/ \E p \in SpecPaths : \E s \in SpecScripts : ClickSetScript(p, s)
    \/ \E p \in SpecPaths : ClickRemoveScript(p)
    \/ FsActivity_not_unix

SpecNotUnix == Init /\ [][NextNotUnix]_vars

(***************************************************************************)
(* The registry right after Load Common Files on an empty registry         *)
(* (gui.rs 423-428), for either value of HOME, and the monitoring controls.*)
(***************************************************************************)
InitCatalogue ==
    \E home \in HomeEnv : InitWith(add_all({}, get_common_files(home)), home)

NextCatalogue ==
    \/ Update
    \/ NoClick
    \/ ClickLoadCommon
    \/ ClickStart(MaxCatalogueStarts)
    \/ ClickStop
    \/ \E e \in Engines : EngineInitFails(e)
    \/ \E e \in Engines : EngineInit(e)
    \/ \E e \in Engines : ReadFails(e)

SpecCatalogue == InitCatalogue /\ [][NextCatalogue]_vars

(***************************************************************************)
(* Start and Stop over threads that can end on their own: Inotify::init    *)
(* fails (honey_files.rs 215) or read_events_blocking fails (240).         *)
(***************************************************************************)
FsEnds ==
    /\ Len(rawlog) < MaxEndNotifs
    /\ \E e \in Engines : \E w \in watches[e] :
         \E mask \in SpecMasks(w) : \E name \in SpecNames :
             FsActivity(e, w, mask, name)

NextEnds ==
    \/ Update
    \/ NoClick
    \/ ClickStart(MaxEndStarts)
    \/ ClickStop
    \/ \E e \in Engines : EngineInitFails(e)
    \/ \E e \in Engines : EngineInit(e)
    \/ FsEnds
    \/ \E e \in Engines : ReadEvents(e)
    \/ \E e \in Engines : ReadFails(e)
    \/ \E e \in Engines : \E exists \in BOOLEAN : Process(e, exists)
    \/ \E e \in Engines : Send(e)

SpecEnds == InitRestart /\ [][NextEnds]_vars

(***************************************************************************)
(* One entry that monitors a single EventType, whichever it is, under the  *)
(* watch loop with every notification its mask lets through.               *)
(***************************************************************************)
InitEmit ==
    \E t \in EventType :
        InitWith({[HoneyFileConfig_new(<<"/tmp", "t.cfg">>)
                      EXCEPT !.monitored_events = <<t>>]}, None)

FsEmit ==
    /\ Len(rawlog) < MaxEmitted
    /\ \E e \in Engines : \E w \in watches[e] :
         \E mask \in SUBSET w.mask : \E name \in EntryNames \cup {None} :
             FsActivity(e, w, mask, name)

NextEmit ==
    \/ Update
    \/ NoClick
    \/ ClickStart(1)
    \/ ClickStop
    \/ \E e \in Engines : EngineInit(e)
    \/ FsEmit
    \/ \E e \in Engines : ReadEvents(e)
    \/ \E e \in Engines : \E exists \in BOOLEAN : Process(e, exists)
    \/ \E e \in Engines : Send(e)

SpecEmit == InitEmit /\ [][NextEmit]_vars

(***************************************************************************)
(* Two entries, one with a script handler, whose watches may be on a file  *)
(* (notifications without a name) or on a directory (named ones), so that  *)
(* one thread reads both kinds.                                            *)
(***************************************************************************)
DiscardRegistry ==
    {[HoneyFileConfig_new(<<"/tmp", "t.cfg">>)
         EXCEPT !.script_handler = Some(<<"alert", "sh">>)],
     HoneyFileConfig_new(<<"/srv", "t.cfg">>)}

InitDiscard == InitWith(DiscardRegistry, None)

FsDiscard ==
    /\ Len(rawlog) < MaxDiscarded
    /\ \E e \in Engines : \E w \in watches[e] :
         \E mask \in SpecMasks(w) : \E name \in SpecNames \cup {None} :
             FsActivity(e, w, mask, name)

NextDiscard ==
    \/ Update
    \/ NoClick
    \/ ClickStart(1)
    \/ ClickStop
    \/ Engine
    \/ FsDiscard

SpecDiscard == InitDiscard /\ [][NextDiscard]_vars

(***************************************************************************)
(* The GUI's polls and its Clear Events control over one thread that       *)
(* delivers several events.                                                *)
(***************************************************************************)
FsPoll ==
    /\ Len(rawlog) < MaxPolled
    /\ \E e \in Engines : \E w \in watches[e] :
         \E mask \in SpecMasks(w) : \E name \in SpecNames :
             FsActivity(e, w, mask, name)

NextPoll ==
    \/ Update
    \/ NoClick
    \/ ClickStart(1)
    \/ ClickStop
    \/ ClickClearEvents
    \/ \E e \in Engines : EngineInit(e)
    \/ FsPoll
    \/ \E e \in Engines : ReadEvents(e)
    \/ \E e \in Engines : \E exists \in BOOLEAN : Process(e, exists)
    \/ \E e \in Engines : Send(e)

SpecPoll == InitRestart /\ [][NextPoll]_vars

(***************************************************************************)
(* The scan and database-update tasks (gui.rs 275-401, 597-627).           *)
(***************************************************************************)
\* what a click on a control of the ClamAV view leaves alone
TaskClickFrame ==
    /\ gui_pc = "draw"
    /\ gui_pc' = "update"
    /\ UNCHANGED <<configs, home_env, inotify_handle, honey_file_receiver,
                   honey_file_events, chan, rx>>
    /\ UNCHANGED history_vars
    /\ UNCHANGED engine_vars

\* run_command_in_thread (gui.rs 597-627): a channel and a thread on it
run_command_in_thread(command_name) ==
    workers' = Append(workers, [pc |-> "output", name |-> command_name,
                                result |-> None, chan |-> None, rx |-> TRUE])

\* Update Database (gui.rs 280-283, 364-367); limit bounds the workers
ClickUpdateDatabase(limit) ==
    /\ TaskClickFrame
    /\ ~is_task_running
    /\ Len(workers) < limit
    /\ run_command_in_thread("freshclam")
    /\ update_task' = Task_InProgress(Len(workers) + 1)
    /\ UNCHANGED scan_task

\* Start Scan (gui.rs 327-329, 349-361)
ClickStartScan(limit) ==
    /\ TaskClickFrame
    /\ ~is_task_running
    /\ Len(workers) < limit
    /\ run_command_in_thread("clamscan")
    /\ scan_task' = Task_InProgress(Len(workers) + 1)
    /\ UNCHANGED update_task

\* Clear Results (gui.rs 330-332): the button is enabled in every state
ClickClearResults ==
    /\ TaskClickFrame
    /\ scan_task' = Task_Idle
    /\ workers' = drop_receivers(receivers_of({scan_task}))
    /\ UNCHANGED update_task

honey_vars == <<configs, home_env, inotify_handle, gui_pc, honey_file_receiver,
                honey_file_events, chan, rx>>

\* command.output() returns in worker w (gui.rs 601-620)
WorkerOutput(w, result) ==
    /\ workers[w].pc = "output"
    /\ workers' = [workers EXCEPT ![w].pc = "send", ![w].result = Some(result)]
    /\ UNCHANGED <<scan_task, update_task>>
    /\ UNCHANGED <<honey_vars, history_vars, engine_vars>>

\* let _ = sender.send(result_str) (gui.rs 622), and the thread returns
WorkerSend(w) ==
    /\ workers[w].pc = "send"
    /\ workers' = [workers EXCEPT ![w].pc = "done",
                                  ![w].chan = IF workers[w].rx THEN workers[w].result
                                              ELSE None]
    /\ UNCHANGED <<scan_task, update_task>>
    /\ UNCHANGED <<honey_vars, history_vars, engine_vars>>

NextTasks ==
    \/ Update
    \/ NoClick
    \/ ClickUpdateDatabase(MaxWorkers)
    \/ ClickStartScan(MaxWorkers)
    \/ ClickClearResults
    \/ \E w \in DOMAIN workers : \E result \in CommandResults : WorkerOutput(w, result)
    \/ \E w \in DOMAIN workers : WorkerSend(w)

SpecTasks == Init /\ [][NextTasks]_vars

(***************************************************************************)
(* Properties.                                                             *)
(***************************************************************************)
\* the FileEvents of raw notification r a channel and the GUI hold
events_of(r) ==
    LET e == rawlog[r].eng
        held == chan[e] \o honey_file_events
                  \o (IF cur[e] = None THEN <<>> ELSE <<unwrap(cur[e])>>)
    IN  {held[i] : i \in {j \in DOMAIN held : held[j].raw = r}}

\* how many FileEvents of raw notification r its thread has put on its channel
sent_count(r) ==
    Cardinality({i \in DOMAIN sent[rawlog[r].eng] : sent[rawlog[r].eng][i] = r})

Increasing(s) == \A i, j \in DOMAIN s : i < j => s[i] < s[j]

\* raw ordinals of the events of thread e in a sequence of FileEvents
RECURSIVE raws_of(_, _)
raws_of(events, e) ==
    IF events = <<>> THEN <<>>
    ELSE IF rawlog[Head(events).raw].eng = e
         THEN <<Head(events).raw>> \o raws_of(Tail(events), e)
         ELSE raws_of(Tail(events), e)

\* C1: once a send has failed because the receiver is gone, the thread has
\* ended: it is not back at the blocking read and handles nothing more.
C1_StopsAfterFailedSend ==
    \A r \in DOMAIN rawlog :
        rawlog[r].fate = "send_failed" => pc[rawlog[r].eng] = "done"

\* C2: per thread, the events the GUI has received (honey_file_events is
\* newest first) followed by those still queued are in the order of the raw
\* notifications they come from.
C2_DeliveredInOrder ==
    \A e \in Engines :
        /\ Increasing(raws_of(Reverse(honey_file_events), e) \o raws_of(chan[e], e))
        /\ Increasing(sent[e])

C2_Witness ==
    /\ Len(honey_file_events) = 2
    /\ honey_file_events[1].raw = 2
    /\ honey_file_events[2].raw = 1
    /\ rawlog[1].eng = rawlog[2].eng

HandlerFailed(r) == rawlog[r].handler \in {"nonzero", "launch_failed"}

\* C3: a notification whose handler failed is still sent: its event is the one
\* the thread is about to send, or it was enqueued, or the send found the
\* receiver gone; the thread did not end or skip it, and with the receiver
\* live the events are on the channel in order.
C3_HandlerFailureKeepsDelivery ==
    \A r \in DOMAIN rawlog :
        HandlerFailed(r) =>
            LET e == rawlog[r].eng
            IN  /\ rawlog[r].fate \in {"read", "enqueued", "send_failed"}
                /\ rawlog[r].fate = "read" =>
                     /\ pc[e] = "send"
                     /\ cur[e] # None
                     /\ unwrap(cur[e]).raw = r
                /\ rawlog[r].fate = "enqueued" => sent_count(r) = 1
                /\ rawlog[r].fate = "send_failed" => ~rx[e]
                /\ Increasing(sent[e])

C3_Witness ==
    /\ Len(rawlog) = 2
    /\ \A r \in DOMAIN rawlog : rawlog[r].handler = "nonzero"
    /\ Len(honey_file_events) = 2
    /\ honey_file_events[1].raw = 2
    /\ honey_file_events[2].raw = 1
    /\ \E e \in Engines : pc[e] = "read" /\ rx[e]

\* the handler each entry name would run in thread e
handler_choices(e) ==
    [n \in EntryNames |->
        handler_for(engine_configs(e), FileEvent_new(PathBuf_from(n), "Modify", 0))]

\* the watches thread e asks for
wanted_watches(e) ==
    {Watch(engine_configs(e)[i], k) : i \in DOMAIN engine_configs(e), k \in {"file", "dir"}}

\* C4: no step, and so no registry edit, changes the configs a spawned thread
\* works with, the handler it would choose or the watches it holds once
\* registered; and the thread a start spawns gets the entries enabled at
\* that moment, every earlier edit included.
C4_SnapshotIsolation ==
    [][/\ \A e \in DOMAIN pc :
            /\ engine_configs(e)' = engine_configs(e)
            /\ handler_choices(e)' = handler_choices(e)
            /\ pc[e] # "init" => /\ watches'[e] = watches[e]
                                 /\ watches[e] \subseteq wanted_watches(e)
       /\ \A n \in {Len(pc) + 1} :
            Len(pc') = n =>
                Range(engine_configs(n)') = {c \in configs : c.enabled}]_vars

\* a thread still runs on a snapshot that a later edit (a handler set on its
\* entry) has left behind, and the next start has picked the edit up
C4_Witness ==
    /\ Len(pc) = 2
    /\ pc[1] = "read"
    /\ pc[2] = "read"
    /\ Len(snap[1]) = 1
    /\ snap[1][1].script_handler = None
    /\ watches[1] # {}
    /\ Len(snap[2]) = 1
    /\ snap[2][1].script_handler # None
    /\ snap[2][1].file_path = snap[1][1].file_path
    /\ Range(snap[2]) = {c \in configs : c.enabled}

\* the categories of the classification, in the order of their precedence
Precedence == <<"Access", "Modify", "Create", "Delete">>

\* a mask contains a category
InCategory(mask, category) ==
    CASE category = "Access" -> "ACCESS" \in mask
      [] category = "Modify" -> "MODIFY" \in mask \/ "CLOSE_WRITE" \in mask
      [] category = "Create" -> "CREATE" \in mask
      [] category = "Delete" -> "DELETE" \in mask

Categories(mask) == {i \in DOMAIN Precedence : InCategory(mask, Precedence[i])}

\* the earliest category of the precedence order a mask contains
EarliestCategory(mask) ==
    Precedence[CHOOSE i \in Categories(mask) : \A j \in Categories(mask) : i <= j]

\* C5: the FileEvent of a raw notification whose mask contains at least one
\* of the categories Access, Modify, Create, Delete has the earliest of
\* them, in that order, as its event type.
C5_FirstMatchPrecedence ==
    \A r \in DOMAIN rawlog :
        Categories(rawlog[r].mask) # {} =>
            \A ev \in events_of(r) :
                ev.event_type = EarliestCategory(rawlog[r].mask)

\* an enqueued event of a mask with two categories and neither the first
\* nor the second of the order
C5_Witness ==
    \E r \in DOMAIN rawlog :
        /\ rawlog[r].mask = {"CREATE", "DELETE", "DELETE_SELF"}
        /\ rawlog[r].fate = "enqueued"
        /\ \E ev \in events_of(r) : ev.event_type = "Create"

\* a notification the thread has dealt with while the receiver was live
HandledLive(r) ==
    /\ rawlog[r].fate \in {"discarded", "enqueued"}
    /\ rawlog[r].rx_live = "live"

\* C6, as claimed: every raw notification the thread has dealt with while
\* the receiver was live has put exactly one FileEvent on the channel.
C6_ExactlyOneEvent ==
    \A r \in DOMAIN rawlog : HandledLive(r) => sent_count(r) = 1

\* what the loop does keep of it: a raw notification never puts more than one
\* FileEvent on the channel, and one that carries a name and is dealt with
\* while the receiver is live puts exactly one there, whatever its mask.
OneEventPerNamedNotification ==
    \A r \in DOMAIN rawlog :
        /\ sent_count(r) <= 1
        /\ HandledLive(r) =>
             sent_count(r) = (IF rawlog[r].name = None THEN 0 ELSE 1)
        /\ sent_count(r) = 1 => rawlog[r].fate = "enqueued"

BothAccessAndModify(r) == {"ACCESS", "MODIFY"} \subseteq rawlog[r].mask

configured_handler(r) ==
    IF rawlog[r].name = None THEN None
    ELSE handler_for(engine_configs(rawlog[r].eng),
                     FileEvent_new(PathBuf_from(rawlog[r].name),
                                   classify(rawlog[r].mask), r))

HandlerOver(r) == rawlog[r].handler \in {"skipped"} \cup HandlerOutcomes

\* the thread holds the event of notification r and is about to send it
AtSend(r) ==
    /\ pc[rawlog[r].eng] = "send"
    /\ cur[rawlog[r].eng] # None
    /\ unwrap(cur[rawlog[r].eng]).raw = r

C8_HandlerThenEnqueue ==
    \A r \in DOMAIN rawlog :
        /\ (rawlog[r].fate \in {"enqueued", "send_failed"}
              /\ configured_handler(r) # None) => HandlerOver(r)
        /\ rawlog[r].handler = "running" =>
             /\ pc[rawlog[r].eng] = "child"
             /\ unwrap(cur[rawlog[r].eng]).raw = r
             /\ sent_count(r) = 0
             /\ \A i \in DOMAIN chan[rawlog[r].eng] : chan[rawlog[r].eng][i].raw # r
             /\ \A i \in DOMAIN honey_file_events : honey_file_events[i].raw # r
        /\ HandlerOver(r) =>
             \/ AtSend(r)
             \/ rawlog[r].fate = "enqueued" /\ sent_count(r) = 1
             \/ rawlog[r].fate = "send_failed" /\ ~rx[rawlog[r].eng]

C8_QuietWhileHandlerRuns ==
    \A e \in DOMAIN pc :
        /\ pc[e] = "child" => sent'[e] = sent[e]
        /\ (pc[e] = "send" /\ rx[e] /\ cur'[e] # cur[e]) =>
             sent'[e] = Append(sent[e], unwrap(cur[e]).raw)

\* C8: with a handler in the matching snapshot config, the handler is over
\* (skipped, success, non-zero exit or launch failure) before the event is
\* enqueued; whatever the outcome the thread goes on to the send of that
\* event, which enqueues it while the receiver is live; and while a handler
\* runs the thread enqueues nothing.
C8_HandlerBeforeEnqueue ==
    [](C8_HandlerThenEnqueue) /\ [][C8_QuietWhileHandlerRuns]_vars

\* two events enqueued after their handlers ended differently
C8_Witness ==
    /\ Len(rawlog) = 2
    /\ rawlog[1].handler = "launch_failed"
    /\ rawlog[2].handler = "success"
    /\ \A r \in {1, 2} : /\ rawlog[r].fate = "enqueued"
                         /\ configured_handler(r) # None
                         /\ sent_count(r) = 1

entries_at(path) == {c \in configs : c.file_path = path}

\* C9: the registry holds at most one entry per path; after add(config) the
\* entry at the config's path is the new config, whatever was there before,
\* and adding the same config once more changes nothing.
C9_UpsertByPath ==
    /\ \A c1 \in configs : \A c2 \in configs :
           c1.file_path = c2.file_path => c1 = c2
    /\ lastAdd # None =>
         /\ entries_at(unwrap(lastAdd).config.file_path) = {unwrap(lastAdd).config}
         /\ add_file(configs, unwrap(lastAdd).config) = configs
         /\ {c \in configs : c.file_path # unwrap(lastAdd).config.file_path}
              = {c \in add_file(configs, unwrap(lastAdd).config) :
                   c.file_path # unwrap(lastAdd).config.file_path}

\* an add has replaced an entry that differed in every field but the path
C9_Witness ==
    /\ lastAdd # None
    /\ unwrap(lastAdd).old # None
    /\ LET new == unwrap(lastAdd).config
           old == unwrap(unwrap(lastAdd).old)
       IN  /\ old.enabled # new.enabled
           /\ old.monitored_events # new.monitored_events
           /\ old.script_handler # new.script_handler
           /\ old.description # new.description
           /\ entries_at(new.file_path) = {new}
    /\ Cardinality(configs) >= 2

\* C10: no config reached from HoneyFileConfig::new or from the catalogue by
\* event toggles holds an EventType twice in monitored_events, and toggling
\* an event that was not monitored on and then off gives back the set of
\* monitored events there was before.
C10_ToggleKeepsSet ==
    /\ \A c \in configs : NoDup(c.monitored_events)
    /\ (lastToggle # None /\ unwrap(lastToggle).orig # None) =>
         \A c \in entries_at(unwrap(lastToggle).path) :
             Range(c.monitored_events) = Range(unwrap(unwrap(lastToggle).orig))

\* an event was toggled on and then off on a config that had been toggled
\* before
C10_Witness ==
    /\ lastToggle # None
    /\ unwrap(lastToggle).orig # None
    /\ unwrap(lastToggle).event_type = "Create"
    /\ ~unwrap(lastToggle).on
    /\ \E c \in entries_at(unwrap(lastToggle).path) :
         /\ Range(c.monitored_events) = {"Modify", "Access", "Read"}
         /\ ~contains(c.monitored_events, "Create")
         /\ Len(unwrap(lastToggle).before) = 4

\* the channels whose Receiver is alive
live_channels == {c \in DOMAIN rx : rx[c]}

C11_OneReceiver ==
    /\ Cardinality(live_channels) <= 1
    /\ live_channels = (IF honey_file_receiver = None THEN {}
                        ELSE {unwrap(honey_file_receiver)})
    /\ lastControl = "refused" => honey_file_receiver # None

C11_StartNeedsIdle ==
    /\ honey_file_receiver # None =>
         /\ Len(pc') = Len(pc)
         /\ Len(chan') = Len(chan)
         /\ honey_file_receiver' \in {honey_file_receiver, None}
    /\ Len(pc') # Len(pc) =>
         /\ honey_file_receiver = None
         /\ Len(pc') = Len(pc) + 1
         /\ Len(chan') = Len(chan) + 1
         /\ honey_file_receiver' = Some(Len(pc'))

\* C11: a thread and a channel are created only by a Start click made while
\* no receiver is held; a Start click made while one is held creates
\* neither, so at most one Receiver is alive, the one the GUI holds.
C11_StartOnlyFromIdle ==
    [](C11_OneReceiver) /\ [][C11_StartNeedsIdle]_vars

\* Start was clicked while the receiver of the second thread was held
C11_Witness ==
    /\ lastControl = "refused"
    /\ Len(pc) = 2
    /\ Len(chan) = 2
    /\ honey_file_receiver = Some(2)
    /\ live_channels = {2}

\* what a thread holds
thread_state(e) ==
    <<pc[e], snap[e], watches[e], kq[e], batch[e], cur[e], chan[e], rx[e], sent[e]>>

C12_SpawnLeavesOthers ==
    Len(pc') = Len(pc) + 1 =>
        /\ \A e \in DOMAIN pc : thread_state(e)' = thread_state(e)
        /\ pc'[Len(pc')] = "init"
        /\ chan'[Len(pc')] = <<>>
        /\ rx'[Len(pc')]

C12_OwnChannel ==
    \A c \in DOMAIN chan :
        /\ \A i \in DOMAIN chan[c] : rawlog[chan[c][i].raw].eng = c
        /\ \A i \in DOMAIN sent[c] : rawlog[sent[c][i]].eng = c

\* C12: start_monitoring spawns a thread on a channel of its own and leaves
\* every thread spawned before as it is, running; and a channel only ever
\* carries the events of its own thread.
C12_SecondEngineBesideFirst ==
    [](C12_OwnChannel) /\ [][C12_SpawnLeavesOthers]_vars

\* two threads at work at once, the first on a notification of its own while
\* the second has delivered one through the receiver the GUI holds
C12_Witness ==
    /\ Len(pc) = 2
    /\ pc[1] = "send"
    /\ pc[2] = "read"
    /\ rawlog[unwrap(cur[1]).raw].eng = 1
    /\ honey_file_receiver = Some(2)
    /\ Len(sent[2]) = 1
    /\ \E i \in DOMAIN honey_file_events : rawlog[honey_file_events[i].raw].eng = 2

C13_NothingAfterStop ==
    /\ lastControl = "stopped" => honey_file_events' \in {honey_file_events, <<>>}
    /\ \A e \in DOMAIN rx :
         ~rx[e] => Len(raws_of(honey_file_events, e)') <= Len(raws_of(honey_file_events, e))

\* C13: from a Stop click to the next Start the GUI's event list does not
\* grow, and no event of a thread whose Receiver has been dropped is added
\* to it at any later time.
C13_StoppedConsumerGetsNothing ==
    [](lastControl = "stopped" => honey_file_receiver = None)
        /\ [][C13_NothingAfterStop]_vars

\* after a Stop the thread tried to send and failed, and a frame has polled
\* since: the list still holds only the event received before the Stop
C13_Witness ==
    /\ lastControl = "stopped"
    /\ Len(rawlog) = 2
    /\ rawlog[1].fate = "enqueued"
    /\ rawlog[2].fate = "send_failed"
    /\ Len(honey_file_events) = 1
    /\ honey_file_events[1].raw = 1
    /\ gui_pc = "draw"

\* paths and handlers of the entries a thread was spawned with
snapshot_paths(e) == {snap[e][i].file_path : i \in DOMAIN snap[e]}
snapshot_handlers(e) == {snap[e][i].script_handler : i \in DOMAIN snap[e]}

C14_OnlyEnabledAtWork ==
    \A e \in DOMAIN pc :
        /\ \A i \in DOMAIN snap[e] : snap[e][i].enabled
        /\ \A w \in watches[e] : w.path \in snapshot_paths(e)
        /\ \A n \in EntryNames :
             handler_choices(e)[n] \in snapshot_handlers(e) \cup {None}

C14_SnapshotIsEnabledSet ==
    Len(pc') = Len(pc) + 1 =>
        /\ Range(snap'[Len(pc')]) = {c \in configs : c.enabled}
        /\ Len(snap'[Len(pc')]) = Cardinality({c \in configs : c.enabled})
        /\ \A c \in configs :
             ~c.enabled =>
                 \A i \in DOMAIN snap'[Len(pc')] :
                     snap'[Len(pc')][i].file_path # c.file_path

\* C14: the configs a thread is spawned with are the registry entries that
\* are enabled at the start, each once and no other; a thread watches only
\* paths of its snapshot and takes handlers only from it, so an entry that
\* was disabled at the start is neither watched nor asked for a handler.
C14_SnapshotOfEnabled ==
    [](C14_OnlyEnabledAtWork) /\ [][C14_SnapshotIsEnabledSet]_vars

\* the entry was enabled at the first start and is watched by the first
\* thread; disabled, with a handler, it is absent from the second thread
C14_Witness ==
    /\ Len(pc) = 2
    /\ Len(snap[1]) = 1
    /\ watches[1] # {}
    /\ snap[2] = <<>>
    /\ pc[2] = "read"
    /\ watches[2] = {}
    /\ lastControl = "spawned"
    /\ \E c \in configs : /\ configs = {c}
                          /\ ~c.enabled
                          /\ c.script_handler # None
                          /\ c.file_path = snap[1][1].file_path

\* the watches a thread holds on a path
watches_on(e, path) == {w \in watches[e] : w.path = path}

C15_ValidEntriesWatched ==
    \A e \in DOMAIN pc :
        regs[e] # None =>
            \A i \in DOMAIN snap[e] :
                IF unwrap(regs[e])[i].kind = "skipped"
                THEN watches_on(e, snap[e][i].file_path) = {}
                ELSE watches_on(e, snap[e][i].file_path) =
                        {[path |-> snap[e][i].file_path,
                          mask |-> watch_mask(snap[e][i].monitored_events),
                          kind |-> unwrap(regs[e])[i].kind]}

C15_LoopEntered ==
    \A e \in DOMAIN pc :
        (regs[e] = None /\ regs'[e] # None) => (pc[e] = "init" /\ pc'[e] = "read")

\* C15: an entry whose path does not exist or whose watch is refused gets no
\* watch, every other entry of the snapshot gets its own, and once the
\* registrations are over the thread is at the blocking read, also when none
\* of them succeeded.
C15_SkippedEntriesDoNotStopOthers ==
    [](C15_ValidEntriesWatched) /\ [][C15_LoopEntered]_vars

\* the first entry was skipped, the second is watched and has had an event
\* delivered
C15_Witness ==
    \E e \in DOMAIN pc :
        /\ regs[e] # None
        /\ unwrap(regs[e])[1].kind = "skipped"
        /\ unwrap(regs[e])[2].kind = "dir"
        /\ Cardinality(watches[e]) = 1
        /\ pc[e] = "read"
        /\ Len(sent[e]) = 1
        /\ rawlog[sent[e][1]].path = snap[e][2].file_path

HandlerCalled(r) == rawlog[r].script # None

\* the thread waits for the child process run for notification r
InChild(r) ==
    /\ pc[rawlog[r].eng] = "child"
    /\ cur[rawlog[r].eng] # None
    /\ unwrap(cur[rawlog[r].eng]).raw = r

ChildRan(r) == rawlog[r].handler \in {"running"} \cup HandlerOutcomes

\* C16: when the loop calls the handler invoker, a child process is run
\* exactly when the handler path exists and its extension is "sh"; otherwise
\* the call returns with nothing run; either way the thread goes on to the
\* send of the event.
C16_ChildOnlyForExistingSh ==
    \A r \in DOMAIN rawlog :
        HandlerCalled(r) =>
            /\ ChildRan(r) <=> (rawlog[r].exists = "yes"
                                  /\ unwrap(rawlog[r].script)[2] = "sh")
            /\ ~ChildRan(r) <=> rawlog[r].handler = "skipped"
            /\ rawlog[r].handler = "skipped" => ~InChild(r)
            /\ \/ InChild(r)
               \/ AtSend(r)
               \/ rawlog[r].fate \in {"enqueued", "send_failed"}

\* an existing handler that is no .sh file was not run, and the event was
\* enqueued
C16_Witness ==
    \E r \in DOMAIN rawlog :
        /\ rawlog[r].script = Some(<<"notes", "txt">>)
        /\ rawlog[r].exists = "yes"
        /\ rawlog[r].handler = "skipped"
        /\ rawlog[r].fate = "enqueued"
        /\ sent_count(r) = 1

\* indices of the snapshot entries whose file name is the notification's
name_matches(r) ==
    {i \in DOMAIN snap[rawlog[r].eng] :
        LET p == snap[rawlog[r].eng][i].file_path
        IN  p # <<>> /\ <<p[Len(p)]>> = rawlog[r].name}

first_name_match(r) == CHOOSE i \in name_matches(r) : \A j \in name_matches(r) : i <= j

Processed(r) ==
    \/ rawlog[r].fate \in {"enqueued", "send_failed"}
    \/ rawlog[r].fate = "read" /\ rawlog[r].handler # "none"
    \/ AtSend(r)

\* C19: the handler the loop calls for a notification is that of the first
\* entry in snapshot order whose file name equals the notification's name,
\* whichever watch the notification came from; it calls none when there is
\* no such entry or that entry has no handler.
C19_HandlerByFileName ==
    \A r \in DOMAIN rawlog :
        (Processed(r) /\ rawlog[r].name # None) =>
            rawlog[r].script =
                (IF name_matches(r) = {} THEN None
                 ELSE snap[rawlog[r].eng][first_name_match(r)].script_handler)

\* a notification from the watch of one entry had the handler of the other
\* entry called, though its own entry has a handler too
C19_Witness ==
    \E r \in DOMAIN rawlog :
        LET cfgs == snap[rawlog[r].eng]
        IN  /\ Len(cfgs) = 2
            /\ rawlog[r].path = cfgs[2].file_path
            /\ cfgs[2].script_handler = Some(<<"page", "sh">>)
            /\ rawlog[r].script = cfgs[1].script_handler
            /\ rawlog[r].script = Some(<<"alert", "sh">>)
            /\ rawlog[r].handler = "success"
            /\ rawlog[r].fate = "enqueued"

\* C17: in the build for a platform that is not unix no watch thread is ever
\* spawned, and whatever the registry holds and whatever happens on disk no
\* FileEvent is put on a channel start_monitoring returned or reaches the
\* GUI's list.
C17_NoEventsWithoutWatchPrimitive ==
    /\ pc = <<>>
    /\ inotify_handle = None
    /\ rawlog = <<>>
    /\ honey_file_events = <<>>
    /\ \A c \in DOMAIN chan : chan[c] = <<>> /\ sent[c] = <<>>
    /\ honey_file_receiver # None => unwrap(honey_file_receiver) \in DOMAIN chan

\* monitoring was started a second time with an enabled entry that has a
\* handler in the registry, and a frame has polled the receiver since
C17_Witness ==
    /\ honey_file_receiver = Some(2)
    /\ lastControl = "started"
    /\ gui_pc = "draw"
    /\ \E c \in configs : c.enabled /\ c.script_handler # None
    /\ pc = <<>>
    /\ honey_file_events = <<>>

\* a notification for the watch on the regular file /tmp/t.cfg of an entry
\* that monitors Write and Modify
WriteToWatchedFile(r) ==
    /\ rawlog[r].path = <<"/tmp", "t.cfg">>
    /\ rawlog[r].mask \subseteq {"MODIFY", "CLOSE_WRITE"}
    /\ \E w \in watches[rawlog[r].eng] :
         w.path = rawlog[r].path /\ w.kind = "file"
    /\ \E i \in DOMAIN snap[rawlog[r].eng] :
         /\ snap[rawlog[r].eng][i].file_path = rawlog[r].path
         /\ snap[rawlog[r].eng][i].monitored_events = <<"Write", "Modify">>

\* C18, as claimed: a write to the watched file /tmp/t.cfg that the thread
\* has dealt with while the receiver is live has put exactly one FileEvent
\* on the channel, of type Modify and with a path that names t.cfg.
C18_WriteYieldsOneModifyEvent ==
    \A r \in DOMAIN rawlog :
        (WriteToWatchedFile(r) /\ HandledLive(r)) =>
            /\ sent_count(r) = 1
            /\ \A ev \in events_of(r) :
                 /\ ev.event_type = "Modify"
                 /\ file_name(ev.file_path) = Some("t.cfg")

\* the flags of an inotify mask
AllFlags == {"ACCESS", "MODIFY", "CLOSE_WRITE", "CREATE", "DELETE", "DELETE_SELF"}

\* the mask the claim gives a list of monitored events, flag by flag
MaskAsClaimed(mask, events) ==
    /\ mask \subseteq AllFlags
    /\ "ACCESS" \in mask <=> Range(events) \cap {"Read", "Access", "Execute"} # {}
    /\ "MODIFY" \in mask <=> Range(events) \cap {"Write", "Modify"} # {}
    /\ "CLOSE_WRITE" \in mask <=> Range(events) \cap {"Write", "Modify"} # {}
    /\ "CREATE" \in mask <=> "Create" \in Range(events)
    /\ "DELETE" \in mask <=> "Delete" \in Range(events)
    /\ "DELETE_SELF" \in mask <=> "Delete" \in Range(events)
    /\ events = <<>> => mask = {}

\* C20: the mask a thread asks a watch with for a snapshot entry, and the
\* mask of the watch it then holds, is the union of the flags of the entry's
\* monitored events: ACCESS for Read, Access and Execute, MODIFY and
\* CLOSE_WRITE for Write and Modify, CREATE for Create, DELETE and
\* DELETE_SELF for Delete, and no flag at all for no event.
C20_WatchMaskIsUnion ==
    \A e \in DOMAIN pc :
        /\ regs[e] # None =>
             \A i \in DOMAIN snap[e] :
                 MaskAsClaimed(unwrap(regs[e])[i].mask, snap[e][i].monitored_events)
        /\ \A w \in watches[e] :
             \E i \in DOMAIN snap[e] :
                 /\ snap[e][i].file_path = w.path
                 /\ MaskAsClaimed(w.mask, snap[e][i].monitored_events)

\* a watch is held for an entry that monitors Execute, Create and Delete
C20_Witness ==
    \E e \in DOMAIN pc :
        /\ snap[e] # <<>>
        /\ Range(snap[e][1].monitored_events) = {"Execute", "Create", "Delete"}
        /\ \E w \in watches[e] :
             w.mask = {"ACCESS", "CREATE", "DELETE", "DELETE_SELF"}


\* C21: every entry of get_common_files is disabled and has no script
\* handler, no two entries have the same path, and a registry that holds
\* exactly the loaded catalogue gives every start_monitoring an empty
\* snapshot, so that no thread registers a watch
C21_CatalogueActivatesNothing ==
    LET files == get_common_files(home_env)
    IN  /\ Len(files) = 7
        /\ \A i \in DOMAIN files :
              /\ ~files[i].enabled
              /\ files[i].script_handler = None
        /\ \A i, j \in DOMAIN files :
              files[i].file_path = files[j].file_path => i = j
        /\ configs = Range(files)
        /\ Cardinality(configs) = 7
        /\ \A e \in Engines :
              /\ snap[e] = <<>>
              /\ watches[e] = {}
              /\ regs[e] # None => DOMAIN unwrap(regs[e]) = {}

\* the catalogue for an unset HOME was loaded, monitoring was started, and
\* the thread is in its read loop with nothing to watch
C21_Witness ==
    /\ home_env = None
    /\ \E c \in configs : c.file_path = <<"/home/user", ".ssh", "authorized_keys">>
    /\ honey_file_receiver = Some(1)
    /\ pc[1] = "read"
    /\ snap[1] = <<>>
    /\ watches[1] = {}


\* C22: EventType::all() lists each of the seven variants exactly once, in
\* the order Read, Write, Execute, Access, Modify, Create, Delete, and as_str
\* gives every variant a label and distinct variants distinct labels; so the
\* events an entry monitors are among those listed and carry as many labels
\* as there are events
C22_AllAndLabels ==
    /\ Len(EventType_all) = 7
    /\ Range(EventType_all) = EventType
    /\ \A i, j \in DOMAIN EventType_all :
          EventType_all[i] = EventType_all[j] => i = j
    /\ EventType_all[1] = "Read" /\ EventType_all[2] = "Write"
    /\ EventType_all[3] = "Execute" /\ EventType_all[4] = "Access"
    /\ EventType_all[5] = "Modify" /\ EventType_all[6] = "Create"
    /\ EventType_all[7] = "Delete"
    /\ \A a, b \in EventType : as_str(a) = as_str(b) => a = b
    /\ Cardinality({as_str(t) : t \in EventType}) = 7
    /\ \A c \in configs :
          /\ Range(c.monitored_events) \subseteq Range(EventType_all)
          /\ Cardinality({as_str(t) : t \in Range(c.monitored_events)})
                = Cardinality(Range(c.monitored_events))

\* an entry monitors all seven variants in the order of EventType::all(),
\* and a thread watches it
C22_Witness ==
    /\ \E c \in configs : c.monitored_events = EventType_all
    /\ \E e \in DOMAIN pc :
          /\ watches[e] # {}
          /\ snap[e][1].monitored_events = EventType_all
          /\ Cardinality({as_str(t) : t \in Range(snap[e][1].monitored_events)}) = 7


\* C23: HoneyFileConfig::new(path) has that path, is enabled, monitors
\* exactly Write and Modify and has no script handler, for every path; the
\* entry the Add File dialog has just stored is such a config
C23_NewDefault ==
    /\ \A p \in RegistryPaths \cup AddPaths :
          LET config == HoneyFileConfig_new(p)
          IN  /\ config.file_path = p
              /\ config.enabled
              /\ Range(config.monitored_events) = {"Write", "Modify"}
              /\ Len(config.monitored_events) = 2
              /\ config.script_handler = None
    /\ lastAdd # None =>
          LET config == unwrap(lastAdd).config
          IN  /\ config.file_path \in RegistryPaths
              /\ config.enabled
              /\ Range(config.monitored_events) = {"Write", "Modify"}
              /\ Len(config.monitored_events) = 2
              /\ config.script_handler = None
              /\ config \in configs

\* the dialog has stored the default config for a path of the catalogue,
\* in place of the catalogue's disabled entry that monitored three events
C23_Witness ==
    /\ lastAdd # None
    /\ unwrap(lastAdd).config = HoneyFileConfig_new(<<"/home/user", ".gitconfig">>)
    /\ unwrap(lastAdd).old = Some(get_common_files(None)[4])
    /\ HoneyFileConfig_new(<<"/home/user", ".gitconfig">>) \in configs


\* C24: remove_file(path) gives the registry without the entry at that path
\* and with every other entry as it was; for a path that has no entry it
\* gives the registry unchanged (there is no error value to return); and a
\* click that shrinks the registry removes exactly one path's entry
C24_RemoveFrame ==
    /\ [](\A p \in RegistryPaths \cup AddPaths :
            LET after == remove_file(configs, p)
            IN  /\ \A c \in after : c.file_path # p
                /\ \A c \in configs : c.file_path # p => c \in after
                /\ after \subseteq configs
                /\ entries_at(p) = {} => after = configs)
    /\ [][Cardinality(configs') < Cardinality(configs) =>
            \E p \in RegistryPaths :
                /\ entries_at(p) # {}
                /\ configs' = configs \ entries_at(p)
                /\ \A c \in configs' : c.file_path # p]_vars

\* the catalogue was loaded and its .gitconfig entry removed: the other six
\* entries are there as loaded, and /srv/t.cfg, whose file name another
\* entry shares, has no entry
C24_Witness ==
    /\ home_env = None
    /\ Cardinality(configs) = 7
    /\ entries_at(<<"/home/user", ".gitconfig">>) = {}
    /\ entries_at(<<"/srv", "t.cfg">>) = {}
    /\ entries_at(<<"/tmp", "t.cfg">>) # {}
    /\ \A i \in {1, 2, 3, 5, 6, 7} : get_common_files(None)[i] \in configs


\* the threads that have not returned
alive == {e \in DOMAIN pc : pc[e] # "done"}

\* C25 as claimed: with Start and Stop clicked through the guarded controls,
\* at most one thread is alive at any time
C25_OneEngineAlive == Cardinality(alive) <= 1

C25_StopEndsNothing ==
    /\ (honey_file_receiver # None /\ honey_file_receiver' = None) => pc' = pc
    /\ \A e \in DOMAIN pc :
          (pc[e] # "done" /\ pc'[e] = "done") => pc[e] \in {"init", "read"}

\* C25: at most one thread holds a Sender whose Receiver is alive, the
\* thread of the last start, and that Receiver is the one the GUI holds; a
\* Stop click ends no thread: a thread ends only in Inotify::init or in
\* read_events_blocking, so threads of earlier starts stay alive beside it
C25_OneEngineConnected ==
    /\ [](\A e \in DOMAIN pc :
            rx[e] => /\ e = Len(pc)
                     /\ honey_file_receiver = Some(e))
    /\ [](Cardinality({e \in alive : rx[e]}) <= 1)
    /\ [](Cardinality(alive) <= Len(pc))
    /\ [][C25_StopEndsNothing]_vars

\* two threads are alive: the first, stopped, has failed to send and is
\* back in its blocking read, the second holds the live channel
C25_Witness ==
    /\ Len(pc) = 2
    /\ alive = {1, 2}
    /\ pc[1] = "read"
    /\ pc[2] = "read"
    /\ ~rx[1]
    /\ rx[2]
    /\ \E r \in DOMAIN rawlog :
          /\ rawlog[r].eng = 1
          /\ rawlog[r].fate = "send_failed"


\* C26 as claimed: for a notification the thread read after the Receiver of
\* its channel was dropped, no handler child process is started
C26_NoHandlerAfterStop ==
    \A r \in DOMAIN rawlog :
        rawlog[r].read_live = "dropped" => ~ChildRan(r)


\* the FileEvents thread e has built: on its channel, in the GUI's list or
\* in its hand
emitted(e) ==
    LET held == chan[e] \o honey_file_events
                  \o (IF cur[e] = None THEN <<>> ELSE <<unwrap(cur[e])>>)
    IN  {held[i] : i \in {j \in DOMAIN held : rawlog[held[j].raw].eng = e}}

\* C27: the event_type of every FileEvent a thread builds is Access, Modify,
\* Create or Delete, never Read, Write or Execute, whatever the entry
\* monitors; so the events of a watch made for an entry that monitors only
\* Write are all Modify, and those of one that monitors only Read or only
\* Execute are all Access
C27_EmittedTypes ==
    \A e \in DOMAIN pc :
        /\ \A ev \in emitted(e) :
              /\ ev.event_type \in {"Access", "Modify", "Create", "Delete"}
              /\ ev.event_type \notin {"Read", "Write", "Execute"}
        /\ \A i \in DOMAIN snap[e] :
              /\ snap[e][i].monitored_events = <<"Write">> =>
                    \A ev \in emitted(e) : ev.event_type = "Modify"
              /\ snap[e][i].monitored_events \in {<<"Read">>, <<"Execute">>} =>
                    \A ev \in emitted(e) : ev.event_type = "Access"

\* the GUI holds a Modify event of a watch made for an entry that monitors
\* only Write
C27_Witness ==
    /\ Len(pc) = 1
    /\ snap[1][1].monitored_events = <<"Write">>
    /\ honey_file_events # <<>>
    /\ honey_file_events[1].event_type = "Modify"
    /\ honey_file_events[1].event_type \notin Range(snap[1][1].monitored_events)
    /\ rawlog[honey_file_events[1].raw].fate = "enqueued"

\* the five flags the classification tests
Tested == {"ACCESS", "MODIFY", "CLOSE_WRITE", "CREATE", "DELETE"}

\* C28: a notification that carries a name and none of the five tested
\* flags is never discarded by the loop body; once the body has dealt with
\* it, it has built one FileEvent for it, of type Access and not Delete,
\* and has put it on the channel when the Receiver was there (the body is
\* not run for it only when the send of an earlier notification of its
\* batch failed because the Receiver is gone)
C28_UntestedIsAccess ==
    \A r \in DOMAIN rawlog :
        (rawlog[r].name # None /\ rawlog[r].mask \cap Tested = {}) =>
            /\ classify(rawlog[r].mask) = "Access"
            /\ rawlog[r].fate # "discarded"
            /\ rawlog[r].fate \in {"queued", "read", "enqueued", "send_failed", "left"}
            /\ rawlog[r].fate = "left" =>
                  /\ ~rx[rawlog[r].eng]
                  /\ \E q \in DOMAIN rawlog :
                        /\ q < r
                        /\ rawlog[q].eng = rawlog[r].eng
                        /\ rawlog[q].fate = "send_failed"
            /\ rawlog[r].fate = "read" =>
                  \/ AtSend(r)
                  \/ \E i \in DOMAIN batch[rawlog[r].eng] :
                        batch[rawlog[r].eng][i].raw = r
            /\ \A ev \in events_of(r) :
                  /\ ev.event_type = "Access"
                  /\ ev.event_type # "Delete"
            /\ rawlog[r].fate = "enqueued" =>
                  /\ sent_count(r) = 1
                  /\ rawlog[r].rx_live = "live"
            /\ rawlog[r].fate = "send_failed" => rawlog[r].rx_live = "dropped"

\* a named notification flagged DELETE_SELF only, from the watch of an entry
\* that monitors Delete, has reached the GUI as an Access event
C28_Witness ==
    \E r \in DOMAIN rawlog :
        /\ rawlog[r].mask = {"DELETE_SELF"}
        /\ rawlog[r].name = Some("t.cfg")
        /\ snap[rawlog[r].eng][1].monitored_events = <<"Delete">>
        /\ rawlog[r].fate = "enqueued"
        /\ \E i \in DOMAIN honey_file_events :
              /\ honey_file_events[i].raw = r
              /\ honey_file_events[i].event_type = "Access"


\* C29: a notification without a name is discarded: no FileEvent is built
\* for it, none is put on the channel and no handler is called for it; only
\* such notifications are discarded, and the events of the named ones are
\* those of their own name and mask, on the channel in the order read
C29_NamelessDiscarded ==
    /\ \A r \in DOMAIN rawlog :
          /\ rawlog[r].name = None =>
                /\ events_of(r) = {}
                /\ sent_count(r) = 0
                /\ rawlog[r].handler = "none"
                /\ rawlog[r].script = None
                /\ ~InChild(r)
                /\ ~AtSend(r)
                /\ rawlog[r].fate \in {"queued", "read", "discarded", "left"}
          /\ rawlog[r].fate = "discarded" => rawlog[r].name = None
          /\ rawlog[r].name # None =>
                /\ \A ev \in events_of(r) :
                      ev = FileEvent_new(PathBuf_from(rawlog[r].name),
                                         classify(rawlog[r].mask), r)
                /\ rawlog[r].fate = "enqueued" => sent_count(r) = 1
    /\ \A e \in DOMAIN pc :
          /\ Increasing(sent[e])
          /\ \A i \in DOMAIN sent[e] : rawlog[sent[e][i]].name # None
          /\ Increasing(raws_of(Reverse(honey_file_events), e) \o raws_of(chan[e], e))

\* one thread has discarded a notification without a name while the
\* Receiver was held, and has run the handler and enqueued the event of the
\* named notification read after it
C29_Witness ==
    /\ Len(rawlog) = 2
    /\ rawlog[1].eng = rawlog[2].eng
    /\ rawlog[1].name = None
    /\ rawlog[1].fate = "discarded"
    /\ rawlog[1].rx_live = "live"
    /\ rawlog[1].handler = "none"
    /\ rawlog[2].name = Some("t.cfg")
    /\ rawlog[2].handler = "success"
    /\ rawlog[2].fate = "enqueued"
    /\ sent[rawlog[2].eng] = <<2>>
    /\ Len(honey_file_events) = 1
    /\ honey_file_events[1] = FileEvent_new(<<"t.cfg">>, "Modify", 2)


\* C30 as claimed: once a thread has returned while the GUI holds the
\* Receiver of its channel, a poll returns nothing: the channel is empty
C30_EndedEngineDeliversNothing ==
    \A e \in DOMAIN pc :
        (pc[e] = "done" /\ honey_file_receiver = Some(e)) => chan[e] = <<>>

C30_EndedStaysMonitoring ==
    \A e \in DOMAIN pc :
        /\ (pc[e] # "done" /\ pc'[e] = "done") =>
              /\ pc[e] \in {"init", "read"}
              /\ UNCHANGED <<honey_file_receiver, honey_file_events, chan, rx, lastControl>>
        /\ pc[e] = "done" =>
              /\ pc'[e] = "done"
              /\ sent'[e] = sent[e]
              /\ chan'[e] \in {chan[e], <<>>}
              /\ honey_file_receiver = Some(e) =>
                    /\ honey_file_receiver' \in {Some(e), None}
                    /\ Len(pc') = Len(pc)
                    /\ honey_file_receiver' = None => lastControl' = "stopped"
                    /\ Len(honey_file_events') <= Len(honey_file_events) + Len(chan[e])
                    /\ chan[e] = <<>> => honey_file_events' = honey_file_events

\* C30: a thread returns only from Inotify::init or read_events_blocking,
\* and its return changes nothing the GUI holds: the Receiver stays held.
\* From then on nothing is put on its channel, so polls hand over the events
\* enqueued before the return and after that nothing; a Start click is
\* refused and spawns no thread while that Receiver is held, and the
\* Receiver is given up only by a Stop click
C30_EndedEngineKeepsMonitoring ==
    /\ [](\A e \in DOMAIN pc :
            pc[e] = "done" => /\ cur[e] = None
                              /\ batch[e] = <<>>
                              /\ honey_file_receiver = Some(e) => rx[e])
    /\ [](lastControl = "refused_after_end" =>
            /\ honey_file_receiver # None
            /\ pc[unwrap(honey_file_receiver)] = "done")
    /\ [][C30_EndedStaysMonitoring]_vars

\* the thread delivered an event and then returned on a read error; the GUI
\* still holds its Receiver, has polled the channel empty, and a Start click
\* made since the return was refused
C30_Witness ==
    /\ Len(pc) = 1
    /\ pc[1] = "done"
    /\ regs[1] # None
    /\ honey_file_receiver = Some(1)
    /\ rx[1]
    /\ lastControl = "refused_after_end"
    /\ chan[1] = <<>>
    /\ Len(honey_file_events) = 1
    /\ rawlog[honey_file_events[1].raw].eng = 1


IsSuffix(s, t) ==
    /\ Len(s) <= Len(t)
    /\ SubSeq(t, Len(t) - Len(s) + 1, Len(t)) = s

IsSegment(s, t) ==
    \E k \in 0..Len(t) : k + Len(s) <= Len(t) /\ SubSeq(t, k + 1, k + Len(s)) = s

C31_ListIsReverseOfDelivery ==
    /\ \A i, j \in DOMAIN honey_file_events :
          honey_file_events[i].raw = honey_file_events[j].raw => i = j
    /\ \A e \in DOMAIN pc :
          LET shown == raws_of(Reverse(honey_file_events), e)
              queued == raws_of(chan[e], e)
          IN  /\ IsSegment(shown, sent[e])
              /\ rx[e] => IsSuffix(shown \o queued, sent[e])

C31_PollDrainsAndPrepends ==
    /\ (gui_pc = "update" /\ gui_pc' = "draw" /\ honey_file_receiver # None) =>
          /\ chan'[unwrap(honey_file_receiver)] = <<>>
          /\ honey_file_events' =
                Reverse(chan[unwrap(honey_file_receiver)]) \o honey_file_events
    /\ \/ honey_file_events' = <<>>
       \/ IsSuffix(honey_file_events, honey_file_events')

\* C31: a poll is never blocked; it empties the channel and puts each event
\* it received in front of the list, in the order received, so that the list
\* is newest first.  Apart from Clear Events the list only grows at the
\* front: it holds no event twice, read backwards it is a run of the
\* thread's sends in their order, and while the Receiver is held that run
\* and the events still on the channel are the thread's latest sends
C31_NewestFirst ==
    [](C31_ListIsReverseOfDelivery) /\ [][C31_PollDrainsAndPrepends]_vars

\* three events were delivered; the first was cleared from the list, which
\* holds the third above the second
C31_Witness ==
    /\ Len(rawlog) = 3
    /\ sent[1] = <<1, 2, 3>>
    /\ honey_file_receiver = Some(1)
    /\ chan[1] = <<>>
    /\ Len(honey_file_events) = 2
    /\ honey_file_events[1].raw = 3
    /\ honey_file_events[2].raw = 2


\* C32: after Load Common Files the entry at every catalogue path is the
\* catalogue's own, disabled and without handler, whatever entry was there
\* before; the entries at other paths are those the load found, unchanged;
\* and loading once more gives the same registry
C32_LoadOverwritesCataloguePaths ==
    lastLoad # None =>
        LET before == unwrap(lastLoad)
            files == get_common_files(home_env)
            paths == {files[i].file_path : i \in DOMAIN files}
        IN  /\ \A i \in DOMAIN files :
                  /\ entries_at(files[i].file_path) = {files[i]}
                  /\ \A c \in entries_at(files[i].file_path) :
                        ~c.enabled /\ c.script_handler = None
            /\ \A c \in before : c.file_path \notin paths => c \in configs
            /\ \A c \in configs : c.file_path \notin paths => c \in before
            /\ configs = add_all(before, files)
            /\ add_all(configs, files) = configs

\* the load found an enabled entry with a handler at a catalogue path and
\* an entry with a handler at another path: the first is now the
\* catalogue's, the second is as it was
C32_Witness ==
    /\ lastLoad # None
    /\ home_env = None
    /\ \E c \in unwrap(lastLoad) :
          /\ c.file_path = <<"/home/user", ".gitconfig">>
          /\ c.enabled
          /\ c.script_handler # None
          /\ c \notin configs
    /\ get_common_files(None)[4] \in configs
    /\ \E c \in unwrap(lastLoad) :
          /\ c.file_path = <<"/tmp", "t.cfg">>
          /\ c.script_handler # None
          /\ c \in configs
    /\ Cardinality(configs) = 8


\* the worker threads that have not returned
running_workers == {w \in DOMAIN workers : workers[w].pc # "done"}

\* C33 as claimed: at most one worker thread of run_command_in_thread is
\* running at any time
C33_OneWorkerRunning == Cardinality(running_workers) <= 1

====
